---- MODULE Spec2Model ----
(***************************************************************************)
(* A model of the markdown / frontmatter micro-language of the             *)
(* AI-Chat-Generator repository: the frontmatter codec, the plan write     *)
(* endpoint, the body segmenters, the block renderers and the checklist    *)
(* toggle.                                                                 *)
(*                                                                         *)
(* Text is modelled as a sequence of one-character strings, so that the    *)
(* code's string operations (split, trim, replace, regular expressions)    *)
(* are computed character by character as the code computes them.          *)
(***************************************************************************)
EXTENDS Integers, Sequences, FiniteSets, TLC

VARIABLES
    files,      \* the file system: path -> content, NoFile or Directory
    req,        \* the last request the write endpoint received
    resp,       \* the status the endpoint answered it with
    calls,      \* the number of tool calls and script runs so far
    hdr,        \* codec: the header field map handed to the encoder
    bodyText,   \* codec: the body text handed to the assembler
    doc,        \* codec: the assembled document text
    decoded,    \* codec: what readFrontmatter returned for doc
    fname,      \* filename predicate: the candidate filename
    safe,       \* filename predicate: the answer of isSafeFilename
    body,       \* segmenters: the document body on disk
    intro,      \* plan editor: the intro state
    sections,   \* plan editor: the sections state
    loaded,     \* plan editor: intro and sections as first loaded
    phase,      \* segmenters: raw / loaded / saved / reloaded / parsed
    messages,   \* chat: the messages parsed from body
    content,    \* a section's or message's content
    content0,   \* the content before the first toggle
    clicked,    \* the texts of the checklist items clicked, in order
    blocks,     \* the blocks each renderer produced for content
    saveStatus, \* plan editor: 'saved' / 'unsaved' / 'saving' / 'error'
    timers,     \* plan editor: the timeouts set and neither run nor cleared
    saveTimer,  \* plan editor: the handle of the timeout set last (0: none)
    edits,      \* plan editor: the number of edits made so far
    bursts,     \* plan editor: the number of bursts of edits begun so far
    sinceEdit,  \* plan editor: milliseconds since the last edit, up to Delay
    writes      \* plan editor: the write requests issued, in order

vars == <<files, req, resp, calls, hdr, bodyText, doc, decoded, fname, safe, body,
          intro, sections, loaded, phase, messages, content, content0,
          clicked, blocks, saveStatus, timers, saveTimer, edits, bursts,
          sinceEdit, writes>>

serverVars == <<files, req, resp, calls>>
codecVars == <<hdr, bodyText, doc, decoded>>
nameVars == <<fname, safe>>
segVars == <<body, intro, sections, loaded, phase, messages>>
contentVars == <<content, content0, clicked, blocks>>
saveVars == <<saveStatus, timers, saveTimer, edits, bursts, sinceEdit, writes>>

\* A value no operation has produced yet.
None == <<"none">>

----------------------------------------------------------------------------
\* Characters and strings

NL == "\n"
SP == " "
TAB == "\t"
QUOTE == "\""
BSLASH == "\\"

\* JavaScript's \s and String.prototype.trim, over the characters modelled.
WhiteSpace == {SP, NL, TAB}

Lower == {"a", "b", "c", "d", "e", "f", "g", "h", "i", "j", "k", "l", "m",
          "n", "o", "p", "q", "r", "s", "t", "u", "v", "w", "x", "y", "z"}
Upper == {"A", "B", "C", "D", "E", "F", "G", "H", "I", "J", "K", "L", "M",
          "N", "O", "P", "Q", "R", "S", "T", "U", "V", "W", "X", "Y", "Z"}
Digit == {"0", "1", "2", "3", "4", "5", "6", "7", "8", "9"}

\* JavaScript's \w
WordChar == Lower \cup Upper \cup Digit \cup {"_"}

RECURSIVE TrimStart(_)
TrimStart(s) ==
    IF s # <<>> /\ Head(s) \in WhiteSpace THEN TrimStart(Tail(s)) ELSE s

RECURSIVE TrimEnd(_)
TrimEnd(s) ==
    IF s # <<>> /\ s[Len(s)] \in WhiteSpace
    THEN TrimEnd(SubSeq(s, 1, Len(s) - 1))
    ELSE s

Trim(s) == TrimEnd(TrimStart(s))

StartsWith(s, p) == Len(s) >= Len(p) /\ SubSeq(s, 1, Len(p)) = p

EndsWith(s, p) ==
    Len(s) >= Len(p) /\ SubSeq(s, Len(s) - Len(p) + 1, Len(s)) = p

\* The text p occurs in s at position i.
OccursAt(s, p, i) ==
    i >= 1 /\ i + Len(p) - 1 <= Len(s) /\ SubSeq(s, i, i + Len(p) - 1) = p

Includes(s, p) == \E i \in 1..(Len(s) + 1) : OccursAt(s, p, i)

\* String.prototype.indexOf, 1-based; 0 when p does not occur.
IndexOf(s, p) ==
    IF Includes(s, p)
    THEN CHOOSE i \in 1..(Len(s) + 1) :
            OccursAt(s, p, i) /\ \A j \in 1..(i - 1) : ~OccursAt(s, p, j)
    ELSE 0

Drop(s, n) == SubSeq(s, n + 1, Len(s))

\* String.prototype.split(c) for a one-character separator.
RECURSIVE Split(_, _)
Split(s, c) ==
    LET i == IndexOf(s, <<c>>)
    IN  IF i = 0 THEN <<s>>
        ELSE <<SubSeq(s, 1, i - 1)>> \o Split(Drop(s, i), c)

\* Array.prototype.join(sep)
RECURSIVE Join(_, _)
Join(parts, sep) ==
    IF parts = <<>> THEN <<>>
    ELSE IF Len(parts) = 1 THEN parts[1]
    ELSE parts[1] \o sep \o Join(Tail(parts), sep)

\* String.prototype.replace(/c/g, r) for a one-character pattern.
RECURSIVE ReplaceAll(_, _, _)
ReplaceAll(s, c, r) ==
    IF s = <<>> THEN <<>>
    ELSE (IF Head(s) = c THEN r ELSE <<Head(s)>>) \o ReplaceAll(Tail(s), c, r)

\* All sequences over S of length at most n.
RECURSIVE SeqsUpTo(_, _)
SeqsUpTo(S, n) ==
    IF n = 0 THEN {<<>>}
    ELSE LET shorter == SeqsUpTo(S, n - 1)
         IN  shorter \cup {Append(s, x) : s \in shorter, x \in S}

----------------------------------------------------------------------------
\* Text literals of the code

T_Delim == <<"-", "-", "-">>
T_Open == <<"-", "-", "-", NL>>
T_Close == <<NL, "-", "-", "-", NL, NL>>
T_NlDelim == <<NL, "-", "-", "-">>
T_ColonSp == <<":", SP>>
T_CommaSp == <<",", SP>>
T_true == <<"t", "r", "u", "e">>
T_false == <<"f", "a", "l", "s", "e">>
T_null == <<"n", "u", "l", "l">>
T_undefined == <<"u", "n", "d", "e", "f", "i", "n", "e", "d">>
T_object == <<"[", "o", "b", "j", "e", "c", "t", SP, "O", "b", "j", "e", "c", "t", "]">>
T_tags == <<"t", "a", "g", "s">>
T_milestones == <<"m", "i", "l", "e", "s", "t", "o", "n", "e", "s">>
T_title == <<"t", "i", "t", "l", "e">>
T_tldr == <<"t", "l", "d", "r">>
T_weeks == <<"w", "e", "e", "k", "s">>
T_status == <<"s", "t", "a", "t", "u", "s">>
T_done == <<"d", "o", "n", "e">>
T_mdx == <<".", "m", "d", "x">>
T_DotDot == <<".", ".">>
T_ItemTitle == <<SP, SP, "-", SP>> \o T_title \o T_ColonSp
T_ItemWeeks == <<SP, SP, SP, SP>> \o T_weeks \o T_ColonSp
T_ItemStatus == <<SP, SP, SP, SP>> \o T_status \o T_ColonSp

----------------------------------------------------------------------------
\* JavaScript values, tagged with their typeof. A boolean and a number are
\* carried as the text String(value) gives them; an array of strings carries
\* its items and an array of milestone records its records.

Str(s) == [t |-> "string", v |-> s]
Bool(b) == [t |-> "boolean", v |-> IF b THEN T_true ELSE T_false]

DigitChar(d) == <<"0", "1", "2", "3", "4", "5", "6", "7", "8", "9">>[d + 1]

\* String(n) for a natural number n
RECURSIVE NumToStr(_)
NumToStr(n) ==
    IF n < 10 THEN <<DigitChar(n)>>
    ELSE Append(NumToStr(n \div 10), DigitChar(n % 10))

Num(n) == [t |-> "number", v |-> NumToStr(n)]
Null == [t |-> "null", v |-> <<>>]
Undefined == [t |-> "undefined", v |-> <<>>]
Strings(a) == [t |-> "strings", items |-> a]
Records(a) == [t |-> "records", recs |-> a]

IsArray(value) == value.t \in {"strings", "records"}

\* array.length
Length(value) == IF value.t = "strings" THEN Len(value.items) ELSE Len(value.recs)

\* String(value)
StringOf(value) ==
    CASE value.t \in {"string", "boolean", "number"} -> value.v
      [] value.t = "null" -> T_null
      [] value.t = "undefined" -> T_undefined
      [] value.t = "strings" -> Join(value.items, <<",">>)
      [] value.t = "records" ->
            Join([i \in 1..Len(value.recs) |-> T_object], <<",">>)

\* The two replacements in the other order.
MutEscapeQuotesFirst(s) ==
    ReplaceAll(ReplaceAll(s, QUOTE, <<BSLASH, QUOTE>>), BSLASH, <<BSLASH, BSLASH>>)

\* value.replace(/\\/g, '\\\\').replace(/"/g, '\\"')
EscapeString(s) ==
    ReplaceAll(ReplaceAll(s, BSLASH, <<BSLASH, BSLASH>>), QUOTE, <<BSLASH, QUOTE>>)

serializeYamlValue(value) ==
    IF value.t = "string"
    THEN <<QUOTE>> \o EscapeString(value.v) \o <<QUOTE>>
    ELSE StringOf(value)

\* The three lines buildFrontmatter pushes for one element of milestones.
\* An element that is no record has no title, weeks or status property.
MilestoneLines(value, i) ==
    LET prop(f) == IF value.t = "records" THEN Str(value.recs[i][f]) ELSE Undefined
    IN  << T_ItemTitle \o serializeYamlValue(prop("title")),
           T_ItemWeeks \o serializeYamlValue(prop("weeks")),
           T_ItemStatus \o <<QUOTE>> \o StringOf(prop("status")) \o <<QUOTE>> >>

RECURSIVE MilestoneBlock(_, _)
MilestoneBlock(value, i) ==
    IF i > Length(value) THEN <<>>
    ELSE MilestoneLines(value, i) \o MilestoneBlock(value, i + 1)

\* (value as string[]).map((t) => `"${t}"`).join(', ')
TagsLine(value) ==
    LET quoted(i) ==
            <<QUOTE>>
            \o (IF value.t = "strings" THEN value.items[i] ELSE T_object)
            \o <<QUOTE>>
    IN  T_tags \o T_ColonSp \o <<"[">>
        \o Join([i \in 1..Length(value) |-> quoted(i)], T_CommaSp)
        \o <<"]">>

\* The same without the test for undefined and null.
MutEntryLinesKeepAbsent(entry) ==
    IF entry.key = T_milestones /\ IsArray(entry.value)
    THEN <<T_milestones \o <<":">> >> \o MilestoneBlock(entry.value, 1)
    ELSE IF entry.key = T_tags /\ IsArray(entry.value)
    THEN <<TagsLine(entry.value)>>
    ELSE <<entry.key \o T_ColonSp \o serializeYamlValue(entry.value)>>

\* The lines buildFrontmatter pushes for one entry of data.
EntryLines(entry) ==
    IF entry.key = T_milestones /\ IsArray(entry.value)
    THEN <<T_milestones \o <<":">> >> \o MilestoneBlock(entry.value, 1)
    ELSE IF entry.key = T_tags /\ IsArray(entry.value)
    THEN <<TagsLine(entry.value)>>
    ELSE IF entry.value.t \notin {"undefined", "null"}
    THEN <<entry.key \o T_ColonSp \o serializeYamlValue(entry.value)>>
    ELSE <<>>

RECURSIVE FrontmatterLines(_)
FrontmatterLines(data) ==
    IF data = <<>> THEN <<>>
    ELSE EntryLines(Head(data)) \o FrontmatterLines(Tail(data))

\* data is Object.entries(data): the fields in the caller's order.
buildFrontmatter(data) == Join(FrontmatterLines(data), <<NL>>)

MutAssembleNoTrim(fm, mdxBody) ==
    T_Open \o fm \o T_Close \o mdxBody \o <<NL>>

\* `---\n${fm}\n---\n\n${mdxBody.trim()}\n`
AssembleDocument(fm, mdxBody) ==
    T_Open \o fm \o T_Close \o Trim(mdxBody) \o <<NL>>

----------------------------------------------------------------------------
\* The lightweight frontmatter decoder

\* raw.match(/^---\n([\s\S]*?)\n---/): the position of the closing "\n---",
\* 0 when there is no match.
FrontmatterEnd(raw) ==
    IF StartsWith(raw, T_Open)
       /\ \E i \in 5..Len(raw) : OccursAt(raw, T_NlDelim, i)
    THEN CHOOSE i \in 5..Len(raw) :
            /\ OccursAt(raw, T_NlDelim, i)
            /\ \A j \in 5..(i - 1) : ~OccursAt(raw, T_NlDelim, j)
    ELSE 0

\* val.replace(/^"(.*)"$/, '$1')
StripQuotes(val) ==
    IF Len(val) >= 2 /\ val[1] = QUOTE /\ val[Len(val)] = QUOTE
       /\ \A i \in 2..(Len(val) - 1) : val[i] # NL
    THEN SubSeq(val, 2, Len(val) - 1)
    ELSE val

\* fm[key] = val on an object kept as its entries in insertion order.
SetField(fm, key, val) ==
    IF \E i \in 1..Len(fm) : fm[i].key = key
    THEN [i \in 1..Len(fm) |->
            IF fm[i].key = key THEN [key |-> key, val |-> val] ELSE fm[i]]
    ELSE Append(fm, [key |-> key, val |-> val])

\* One turn of the loop over the lines of the header block.
ReadLine(fm, line) ==
    LET colonIdx == IndexOf(line, <<":">>)
        key == Trim(SubSeq(line, 1, colonIdx - 1))
        val == StripQuotes(Trim(Drop(line, colonIdx)))
    IN  IF colonIdx = 0 \/ StartsWith(line, <<SP>>) THEN fm
        ELSE IF key # <<>> THEN SetField(fm, key, val)
        ELSE fm

RECURSIVE ReadLines(_, _)
ReadLines(fm, lines) ==
    IF lines = <<>> THEN fm
    ELSE ReadLines(ReadLine(fm, Head(lines)), Tail(lines))

\* raw is the file's text, as fs.readFileSync returned it.
readFrontmatter(raw) ==
    LET end == FrontmatterEnd(raw)
    IN  IF end = 0 THEN <<>>
        ELSE ReadLines(<<>>, Split(SubSeq(raw, 5, end - 1), NL))

\* fm[key], Undefined when the object has no such key
Field(fm, key) ==
    IF \E i \in 1..Len(fm) : fm[i].key = key
    THEN Str((CHOOSE e \in {fm[i] : i \in 1..Len(fm)} : e.key = key).val)
    ELSE Undefined

----------------------------------------------------------------------------
\* Filenames

\* /^[\w.-]+\.mdx$/.test(filename): one or more characters of the class,
\* then the literal ".mdx", then the end of the input.
MatchesMdxPattern(filename) ==
    \E k \in 1..Len(filename) :
        /\ \A i \in 1..k : filename[i] \in WordChar \cup {".", "-"}
        /\ Drop(filename, k) = T_mdx

MutIsSafeNoTraversalCheck(filename) == MatchesMdxPattern(filename)

MutIsSafeAnything(filename) == TRUE

isSafeFilename(filename) ==
    MatchesMdxPattern(filename) /\ ~Includes(filename, T_DotDot)

----------------------------------------------------------------------------
\* The plan write endpoint (POST /api/update-plan)

NoFile == <<"ENOENT">>
Directory == <<"EISDIR">>

\* Paths, relative to PLANS_DIR
P_a == <<"a">> \o T_mdx
P_c == <<"c">> \o T_mdx
P_dots == <<"a", ".">> \o T_mdx
P_up == <<".", ".", "/", "a">> \o T_mdx
P_sub == <<"d", "/", "a">> \o T_mdx
P_dir == <<>>

Paths == {P_a, P_c, P_dots, P_up, P_sub, P_dir}

D_old == <<"o", "l", "d", NL>>

\* Two plans exist, one of them with consecutive dots in its name; c.mdx
\* does not. Outside the plans directory lie a file of the parent directory
\* and a file of a subdirectory.
InitFiles ==
    [p \in Paths |->
        IF p = P_dir THEN Directory
        ELSE IF p = P_c THEN NoFile
        ELSE D_old \o p]

Object(entries) == [t |-> "object", entries |-> entries]

Entry(k, val) == [key |-> k, value |-> val]

Milestone(ti, w, st) == [title |-> ti, weeks |-> w, status |-> st]

ReqFilenames == {Str(p) : p \in Paths} \cup {Undefined}

ReqFrontmatters ==
    { Object(<<Entry(T_title, Str(<<"A">>))>>),
      Object(<<Entry(T_title, Str(<<"B", QUOTE>>)),
               Entry(T_tags, Strings(<< <<"x">>, <<"y">> >>)),
               Entry(T_tldr, Undefined),
               Entry(T_milestones,
                     Records(<<Milestone(<<"M">>, <<"1">>, T_done)>>))>>),
      Undefined }

ReqBodies ==
    { Str(<<"x">>),
      Str(<<SP, "#", "#", SP, "S", NL, NL, "y", NL, NL>>),
      Str(<<NL>>),
      Undefined }

\* !filename || !/^[\w.-]+\.mdx$/.test(filename), negated
MutValidFilenameAnyString(filename) == filename.t = "string"

ValidFilename(filename) ==
    /\ filename.t = "string"
    /\ filename.v # <<>>
    /\ MatchesMdxPattern(filename.v)

MutExistsNever(fs, filepath) == FALSE

\* fs.existsSync(filepath)
Exists(fs, filepath) == fs[filepath] # NoFile

\* The status the handler answers with.
Status(fs, filename, frontmatter, mdxBody, diskOk) ==
    IF ~ValidFilename(filename) THEN 400
    ELSE IF ~Exists(fs, filename.v) THEN 404
    \* Object.entries(undefined) and undefined.trim() throw; so does a
    \* write the disk refuses: the catch answers 500
    ELSE IF frontmatter.t # "object" \/ mdxBody.t # "string" THEN 500
    ELSE IF ~diskOk \/ fs[filename.v] = Directory THEN 500
    ELSE 200

POST(filename, frontmatter, mdxBody, diskOk) ==
    LET status == Status(files, filename, frontmatter, mdxBody, diskOk)
    IN  /\ req' = [filename |-> filename, frontmatter |-> frontmatter,
                   body |-> mdxBody]
        /\ resp' = [status |-> status]
        /\ files' =
              IF status = 200
              THEN [files EXCEPT ![filename.v] =
                        AssembleDocument(buildFrontmatter(frontmatter.entries),
                                         mdxBody.v)]
              ELSE files
        /\ UNCHANGED <<calls, codecVars, nameVars, segVars, contentVars, saveVars>>

NoRequest == [filename |-> Undefined, frontmatter |-> Undefined, body |-> Undefined]

IdleServer ==
    files = InitFiles /\ req = NoRequest /\ resp = [status |-> 0] /\ calls = 0
IdleCodec == hdr = None /\ bodyText = None /\ doc = None /\ decoded = Undefined
IdleName == fname = None /\ safe = None
IdleSeg ==
    /\ body = None /\ intro = <<>> /\ sections = <<>>
    /\ loaded = [intro |-> <<>>, sections |-> <<>>]
    /\ phase = "idle" /\ messages = <<>>

\* Nothing rendered yet by the chat renderer, the read-only plan renderer
\* and the editable plan renderer.
NoBlocks == [chat |-> <<>>, plan |-> <<>>, edit |-> <<>>, done |-> {}]

IdleContent ==
    /\ content = None /\ content0 = None /\ clicked = <<>>
    /\ blocks = NoBlocks

IdleSave ==
    /\ saveStatus = "saved"
    /\ timers = {}
    /\ saveTimer = 0
    /\ edits = 0
    /\ bursts = 0
    /\ sinceEdit = 0
    /\ writes = <<>>

\* The write endpoint serving any sequence of requests.
Init == IdleServer /\ IdleCodec /\ IdleName /\ IdleSeg /\ IdleContent /\ IdleSave

Next ==
    \E filename \in ReqFilenames, frontmatter \in ReqFrontmatters,
       mdxBody \in ReqBodies, diskOk \in BOOLEAN :
        POST(filename, frontmatter, mdxBody, diskOk)

Spec == Init /\ [][Next]_vars

----------------------------------------------------------------------------
\* What the claims say of filenames and documents

\* f matches ^[\w.-]+\.mdx$: it ends in .mdx, something precedes the
\* extension, and it holds only word characters, dots and hyphens.
IsPlanFileName(f) ==
    /\ Len(f) >= 5
    /\ EndsWith(f, T_mdx)
    /\ \A i \in 1..Len(f) : f[i] \in WordChar \cup {".", "-"}

\* No segment of the path f is the parent directory.
NoParentSegment(f) ==
    LET segs == Split(f, "/")
    IN  \A i \in 1..Len(segs) : segs[i] # T_DotDot

ExistingFiles(fs) == {p \in Paths : fs[p] # NoFile}

AcceptableName(filename) ==
    /\ filename.t = "string"
    /\ IsPlanFileName(filename.v)
    /\ NoParentSegment(filename.v)

\* C1: the write endpoint changes the file system only for a filename that
\* matches ^[\w.-]+\.mdx$, has no parent-directory segment and names an
\* existing file; any other filename is answered 400 (invalid input), a
\* matching but absent file 404 (not found), and in both cases no file is
\* created or changed: the set of existing files never changes.
C1_WritesOnlyExistingPlans ==
    [][ LET f == req'.filename
        IN  /\ ExistingFiles(files') = ExistingFiles(files)
            /\ ~AcceptableName(f) => resp'.status = 400 /\ files' = files
            /\ AcceptableName(f) /\ files[f.v] = NoFile
                  => resp'.status = 404 /\ files' = files
            /\ files' # files
                  => /\ AcceptableName(f)
                     /\ files[f.v] # NoFile
                     /\ \A p \in Paths \ {f.v} : files'[p] = files[p]
      ]_vars

\* A plan has been rewritten, and a later request for an absent file was
\* then answered not-found.
C1_Witness ==
    /\ resp.status = 404
    /\ req.filename.v = P_c
    /\ files[P_c] = NoFile
    /\ files[P_a] # InitFiles[P_a]

\* C2: after a successful write request the target file holds exactly
\* "---\n" + Encode(header) + "\n---\n\n" + trim(body) + "\n", whatever it
\* held before.
C2_FullReplacement ==
    resp.status = 200 =>
        files[req.filename.v] =
            <<"-", "-", "-", NL>> \o buildFrontmatter(req.frontmatter.entries)
            \o <<NL, "-", "-", "-", NL, NL>> \o Trim(req.body.v) \o <<NL>>

\* A request whose body needed trimming has replaced a plan.
C2_Witness ==
    /\ resp.status = 200
    /\ req.filename.v = P_a
    /\ req.body.v # Trim(req.body.v)
    /\ Len(req.frontmatter.entries) > 1
    /\ files[P_a] # InitFiles[P_a]

----------------------------------------------------------------------------
\* The codec on its own: a header and a body are assembled into a document
\* (the write path), and the document's header is read back by the
\* lightweight decoder (the listing path).

MaxValuePieces == 3

ValuePieces ==
    { <<"a">>, <<QUOTE>>, <<BSLASH>>, <<NL>>, <<"-", "-", "-">>, <<":", SP>> }

\* The texts made of at most n of the pieces.
RECURSIVE PieceTexts(_, _)
PieceTexts(pieces, n) ==
    IF n = 0 THEN {<<>>}
    ELSE LET shorter == PieceTexts(pieces, n - 1)
         IN  shorter \cup {t \o p : t \in shorter, p \in pieces}

\* The string of the encoder's test suite: say "hi"
V_SayHi == <<"s", "a", "y", SP, QUOTE, "h", "i", QUOTE>>

CodecValues == PieceTexts(ValuePieces, MaxValuePieces) \cup {V_SayHi}

T_count == <<"c", "o", "u", "n", "t">>

CodecSecondFields ==
    { Entry(T_done, Bool(TRUE)), Entry(T_done, Bool(FALSE)),
      Entry(T_count, Num(0)), Entry(T_count, Num(42)),
      Entry(T_tldr, Undefined), Entry(T_tldr, Str(<<"b", SP, "c">>)) }

T_topics == <<"t", "o", "p", "i", "c", "s">>
T_action_items ==
    <<"a", "c", "t", "i", "o", "n", "_", "i", "t", "e", "m", "s">>
T_java == <<"j", "a", "v", "a">>
T_gsoc == <<"g", "s", "o", "c">>

\* An action item of a chat header: { task, done }
ActionItem(task, done) == [task |-> Str(task), done |-> Bool(done)]

\* Fields whose value is an array or null.
CodecCollectionFields ==
    { Entry(T_tags, Strings(<<>>)),
      Entry(T_tags, Strings(<<T_java, T_gsoc>>)),
      Entry(T_tags, Strings(<< <<"a", QUOTE>> >>)),
      Entry(T_topics, Strings(<<T_java, T_gsoc>>)),
      Entry(T_milestones, Records(<<>>)),
      Entry(T_milestones,
            Records(<<Milestone(<<"M">>, <<"1", "-", "4">>, T_done),
                      Milestone(<<"N", QUOTE>>, <<"5">>, <<"n", "o">>)>>)),
      Entry(T_action_items,
            Records(<<ActionItem(<<"t">>, TRUE), ActionItem(<<"u">>, FALSE)>>)),
      Entry(T_tldr, Null) }

\* Headers of a string and a scalar, of a string and an array, and of three
\* fields the second of which is undefined or null.
CodecHeaders ==
    { <<Entry(T_title, Str(v)), f>> : v \in CodecValues, f \in CodecSecondFields }
    \cup
    { <<Entry(T_title, Str(<<"A">>)), f>> : f \in CodecCollectionFields }
    \cup
    { <<Entry(T_title, Str(<<"A">>)), f, g>> :
        f \in {Entry(T_tldr, Undefined), Entry(T_tldr, Null)},
        g \in {e \in CodecSecondFields \cup CodecCollectionFields :
                  e.key # T_tldr} }

CodecBodies == { <<"x">>, <<NL, "x", SP, "y", NL, NL>>, <<>> }

InitCodec ==
    /\ hdr \in CodecHeaders
    /\ bodyText \in CodecBodies
    /\ doc = None
    /\ decoded = Undefined
    /\ IdleServer /\ IdleName /\ IdleSeg /\ IdleContent /\ IdleSave

\* The write path: buildFrontmatter and the assembly of the file's text.
Assemble ==
    /\ doc = None
    /\ doc' = AssembleDocument(buildFrontmatter(hdr), bodyText)
    /\ UNCHANGED <<hdr, bodyText, decoded>>
    /\ UNCHANGED <<serverVars, nameVars, segVars, contentVars, saveVars>>

\* The listing path: readFrontmatter on the file written.
Decode ==
    /\ doc # None
    /\ decoded.t = "undefined"
    /\ decoded' = Object(readFrontmatter(doc))
    /\ UNCHANGED <<hdr, bodyText, doc>>
    /\ UNCHANGED <<serverVars, nameVars, segVars, contentVars, saveVars>>

NextCodec == Assemble \/ Decode

SpecCodec == InitCodec /\ [][NextCodec]_vars

\* The body of a document: the text after the first header block, that is
\* after the first line "---" that follows the opening line "---", less the
\* blank line that separates header and body.
ExtractBody(text) ==
    LET lines == Split(text, NL)
        closing == {i \in 2..Len(lines) : lines[i] = T_Delim}
    IN  IF lines[1] # T_Delim \/ closing = {} THEN text
        ELSE LET c == CHOOSE i \in closing : \A j \in closing : i <= j
                 rest == Join(SubSeq(lines, c + 1, Len(lines)), <<NL>>)
             IN  IF rest # <<>> /\ Head(rest) = NL THEN Tail(rest) ELSE rest

\* C3: the body re-extracted from AssembleDocument(H, B) is B trimmed
\* followed by exactly one newline, for every header H, string fields with
\* newlines or with a line equal to --- included.
C3_BodyRoundTrip ==
    doc # None => ExtractBody(doc) = Trim(bodyText) \o <<NL>>

IsScalar(value) == value.t \in {"string", "boolean", "number"}

\* C5: the decoder returns, for every scalar field of the header, the value
\* the encoder received (a boolean or a number as its text), strings with
\* double quotes or backslashes included.
C5_ScalarRoundTrip ==
    decoded.t = "object" =>
        \A i \in 1..Len(hdr) :
            IsScalar(hdr[i].value)
                => Field(decoded.entries, hdr[i].key) = Str(StringOf(hdr[i].value))

----------------------------------------------------------------------------
\* The filename safety predicate on its own

MaxNamePieces == 3

NamePieces ==
    { <<"a">>, <<"Z", "9">>, <<"_">>, <<"-">>, <<".">>, <<"/">>, <<BSLASH>>,
      <<SP>>, <<NL>>, T_mdx }

\* The filenames of the test suite
N_plan ==
    <<"2", "0", "2", "6", "-", "0", "2", "-", "2", "5", "-", "m", "y", "-",
      "p", "l", "a", "n">> \o T_mdx
N_secrets == <<".", ".", "/", "s", "e", "c", "r", "e", "t", "s">> \o T_mdx
N_txt == <<"f", "i", "l", "e", ".", "t", "x", "t">>
N_subdir == <<"s", "u", "b", "d", "i", "r", "/", "f", "i", "l", "e">> \o T_mdx

Filenames ==
    PieceTexts(NamePieces, MaxNamePieces)
    \cup {N_plan, N_secrets, N_txt, N_subdir}

InitName ==
    /\ fname \in Filenames
    /\ safe = [checked |-> FALSE, result |-> FALSE]
    /\ IdleServer /\ IdleCodec /\ IdleSeg /\ IdleContent /\ IdleSave

\* A tool validates the filename its caller supplied.
CheckFilename ==
    /\ ~safe.checked
    /\ safe' = [checked |-> TRUE, result |-> isSafeFilename(fname)]
    /\ UNCHANGED fname
    /\ UNCHANGED <<serverVars, codecVars, segVars, contentVars, saveVars>>

NextName == CheckFilename

SpecName == InitName /\ [][NextName]_vars

HasDotDot(f) == \E i \in 1..(Len(f) - 1) : f[i] = "." /\ f[i + 1] = "."

HasChar(f, c) == \E i \in 1..Len(f) : f[i] = c

\* C6: isSafeFilename(f) is true exactly when f matches ^[\w.-]+\.mdx$ and
\* holds no "..": so it rejects the empty string, a name with a path
\* separator, a name with "..", a name that does not end in .mdx, and it
\* accepts 2026-02-25-my-plan.mdx.
C6_SafeFilename ==
    safe.checked =>
        /\ safe.result <=> (IsPlanFileName(fname) /\ ~HasDotDot(fname))
        /\ fname = <<>> => ~safe.result
        /\ HasChar(fname, "/") \/ HasChar(fname, BSLASH) => ~safe.result
        /\ HasDotDot(fname) => ~safe.result
        /\ ~EndsWith(fname, T_mdx) => ~safe.result
        /\ fname \in {N_secrets, N_txt, N_subdir} => ~safe.result
        /\ fname = N_plan => safe.result

\* A name that matches the pattern is rejected for its "..".
C6_Witness ==
    /\ safe.checked
    /\ ~safe.result
    /\ IsPlanFileName(fname)
    /\ HasDotDot(fname)

----------------------------------------------------------------------------
\* Section segmentation and its inverse (the plan editor)

T_H2 == <<"#", "#", SP>>
T_H3 == <<"#", "#", "#", SP>>
T_Blank == <<NL, NL>>

\* line.match(/^## (.+)/) and line.match(/^### (.+)/): the marker and at
\* least one more character of the line.
MatchesH2(line) == StartsWith(line, T_H2) /\ Len(line) > Len(T_H2)
MatchesH3(line) == StartsWith(line, T_H3) /\ Len(line) > Len(T_H3)

\* /^##\s/.test(line)
MatchesIntroEnd(line) ==
    Len(line) >= 3 /\ line[1] = "#" /\ line[2] = "#" /\ line[3] \in WhiteSpace

Section(level, title, text) == [level |-> level, title |-> title, content |-> text]

\* flush(): current is a sequence holding the open section, if there is one.
\* The buffer is emptied only when a section is open.
FlushSection(st) ==
    IF st.current # <<>>
    THEN [st EXCEPT
            !.sections =
                Append(st.sections,
                       [st.current[1] EXCEPT
                            !.content = Trim(Join(st.buf, <<NL>>))]),
            !.buf = <<>>]
    ELSE st

\* One turn of the loop of parseSections.
SectionStep(st, line) ==
    IF MatchesH2(line)
    THEN [FlushSection(st) EXCEPT
            !.current = <<Section(2, Trim(Drop(line, Len(T_H2))), <<>>)>>]
    ELSE IF MatchesH3(line)
    THEN [FlushSection(st) EXCEPT
            !.current = <<Section(3, Trim(Drop(line, Len(T_H3))), <<>>)>>]
    ELSE [st EXCEPT !.buf = Append(st.buf, line)]

RECURSIVE SectionLoop(_, _)
SectionLoop(st, lines) ==
    IF lines = <<>> THEN st
    ELSE SectionLoop(SectionStep(st, Head(lines)), Tail(lines))

parseSections(raw) ==
    FlushSection(
        SectionLoop([sections |-> <<>>, current |-> <<>>, buf |-> <<>>],
                    Split(raw, NL))).sections

\* The lines before the first line that matches /^##\s/.
RECURSIVE IntroLines(_)
IntroLines(lines) ==
    IF lines = <<>> \/ MatchesIntroEnd(Head(lines)) THEN <<>>
    ELSE <<Head(lines)>> \o IntroLines(Tail(lines))

\* The initial state of intro: useState(() => ...)
parseIntro(initialBody) == Trim(Join(IntroLines(Split(initialBody, NL)), <<NL>>))

\* '#'.repeat(level)
RECURSIVE Repeat(_, _)
Repeat(c, n) == IF n = 0 THEN <<>> ELSE <<c>> \o Repeat(c, n - 1)

RECURSIVE SectionParts(_)
SectionParts(ss) ==
    IF ss = <<>> THEN <<>>
    ELSE LET sec == Head(ss)
         IN  <<Repeat("#", sec.level) \o <<SP>> \o sec.title>>
             \o (IF sec.content # <<>> THEN <<sec.content>> ELSE <<>>)
             \o SectionParts(Tail(ss))

sectionsToBody(introText, ss) ==
    Join((IF Trim(introText) # <<>> THEN <<Trim(introText)>> ELSE <<>>)
            \o SectionParts(ss),
         T_Blank)

MaxBodyPieces == 4

BodyPieces ==
    { T_H2, T_H3, <<"#", "#">>, <<"a">>, <<"b", SP, "c">>, <<NL>>, <<SP>>, <<TAB>> }

PlanBodies == PieceTexts(BodyPieces, MaxBodyPieces)

InitPlan ==
    /\ body \in PlanBodies
    /\ intro = <<>>
    /\ sections = <<>>
    /\ loaded = [intro |-> <<>>, sections |-> <<>>]
    /\ phase = "raw"
    /\ messages = <<>>
    /\ IdleServer /\ IdleCodec /\ IdleName /\ IdleContent /\ IdleSave

\* The editor mounts on a body: the initial state of intro and sections.
LoadPlan ==
    /\ phase \in {"raw", "saved"}
    /\ intro' = parseIntro(body)
    /\ sections' = parseSections(body)
    /\ loaded' = IF phase = "raw"
                 THEN [intro |-> intro', sections |-> sections']
                 ELSE loaded
    /\ phase' = IF phase = "raw" THEN "loaded" ELSE "reloaded"
    /\ UNCHANGED <<body, messages>>
    /\ UNCHANGED <<serverVars, codecVars, nameVars, contentVars, saveVars>>

\* The editor saves without an edit: the body it sends is stored by the
\* write endpoint, trimmed and with a final newline, in place of the old one.
SavePlan ==
    /\ phase = "loaded"
    /\ body' = Trim(sectionsToBody(intro, sections)) \o <<NL>>
    /\ phase' = "saved"
    /\ UNCHANGED <<intro, sections, loaded, messages>>
    /\ UNCHANGED <<serverVars, codecVars, nameVars, contentVars, saveVars>>

NextPlan == LoadPlan \/ SavePlan

SpecPlan == InitPlan /\ [][NextPlan]_vars

\* C4: load, save, load gives the intro and the sections of the first load.
C4_LoadSaveLoad ==
    phase = "reloaded" =>
        intro = loaded.intro /\ sections = loaded.sections

\* No line of text begins with a heading marker, "## " or "### ".
NoHeadingLine(text) ==
    LET lines == Split(text, NL)
    IN  \A i \in 1..Len(lines) :
            ~StartsWith(lines[i], T_H2) /\ ~StartsWith(lines[i], T_H3)

\* C10: a body with no heading line has no sections, and its intro is the
\* whole body trimmed.
C10_NoHeadings ==
    phase = "loaded" /\ NoHeadingLine(body) =>
        sections = <<>> /\ intro = Trim(body)

\* A line that opens a section: "## " or "### " and a title after it.
IsSectionHeading(line) ==
    \E marker \in {T_H2, T_H3} :
        StartsWith(line, marker) /\ Len(line) > Len(marker)

\* The numbers of the section headings among lines from..Len(lines), in
\* order.
RECURSIVE HeadingNumbers(_, _)
HeadingNumbers(lines, from) ==
    IF from > Len(lines) THEN <<>>
    ELSE (IF IsSectionHeading(lines[from]) THEN <<from>> ELSE <<>>)
         \o HeadingNumbers(lines, from + 1)

\* The lines strictly between the k-th heading and the next one, or the end.
LinesOfSection(lines, hs, k) ==
    SubSeq(lines, hs[k] + 1,
           IF k < Len(hs) THEN hs[k + 1] - 1 ELSE Len(lines))

SectionsHoldTheirLines ==
    LET lines == Split(body, NL)
        hs == HeadingNumbers(lines, 1)
    IN  /\ Len(sections) = Len(hs)
        /\ \A k \in 1..Len(hs) :
               sections[k].content
                   = Trim(Join(LinesOfSection(lines, hs, k), <<NL>>))

\* C19: each section's content is the trimmed text of the lines strictly
\* between its heading and the next heading or the end of the body; text
\* before the first heading is in no section's content.
C19_SectionContent == phase = "loaded" => SectionsHoldTheirLines

\* The text before the first section heading (the whole body if none).
BeforeFirstHeading(text) ==
    LET lines == Split(text, NL)
        hs == HeadingNumbers(lines, 1)
    IN  Join(SubSeq(lines, 1, IF hs = <<>> THEN Len(lines) ELSE hs[1] - 1),
             <<NL>>)

\* The same holds for the bodies with only white space before the first
\* heading.
C19_WithoutPreamble ==
    (phase = "loaded" /\ Trim(BeforeFirstHeading(body)) = <<>>)
        => SectionsHoldTheirLines

\* The lines before the first line that begins with "## " or "### ".
RECURSIVE LinesBeforeMarker(_)
LinesBeforeMarker(lines) ==
    IF lines = <<>> THEN <<>>
    ELSE IF StartsWith(Head(lines), T_H2) \/ StartsWith(Head(lines), T_H3)
    THEN <<>>
    ELSE <<Head(lines)>> \o LinesBeforeMarker(Tail(lines))

IntroIsTextBeforeMarker ==
    LET lines == Split(body, NL)
        hs == HeadingNumbers(lines, 1)
        last == IF hs = <<>> THEN Len(lines) ELSE hs[1] - 1
    IN  /\ intro = Trim(Join(LinesBeforeMarker(lines), <<NL>>))
        /\ \E n \in 0..last : intro = Trim(Join(SubSeq(lines, 1, n), <<NL>>))

\* C20: the intro is the trimmed text of the lines before the first line
\* that begins with "## " or "### ", and so is made of lines that come
\* before the first section heading: it holds no heading and no line of a
\* section.
C20_IntroBeforeFirstHeading == phase = "loaded" => IntroIsTextBeforeMarker

\* The same holds for the bodies in which every line that begins with "##"
\* begins with "## ".
C20_Level2MarkersOnly ==
    (phase = "loaded"
        /\ \A i \in 1..Len(Split(body, NL)) :
               StartsWith(Split(body, NL)[i], <<"#", "#">>)
                   => StartsWith(Split(body, NL)[i], T_H2))
        => IntroIsTextBeforeMarker

----------------------------------------------------------------------------
\* Message segmentation (chats)

T_user == <<"u", "s", "e", "r">>
T_ai == <<"a", "i">>

UpperSeq ==
    <<"A", "B", "C", "D", "E", "F", "G", "H", "I", "J", "K", "L", "M",
      "N", "O", "P", "Q", "R", "S", "T", "U", "V", "W", "X", "Y", "Z">>
LowerSeq ==
    <<"a", "b", "c", "d", "e", "f", "g", "h", "i", "j", "k", "l", "m",
      "n", "o", "p", "q", "r", "s", "t", "u", "v", "w", "x", "y", "z">>

\* String.prototype.toLowerCase
ToLowerCase(s) ==
    [i \in 1..Len(s) |->
        IF s[i] \in Upper
        THEN LowerSeq[CHOOSE k \in 1..26 : UpperSeq[k] = s[i]]
        ELSE s[i]]

\* The positions where /^## /m matches: "## " at the start of a line.
HeadingStarts(raw) ==
    {i \in 1..Len(raw) : OccursAt(raw, T_H2, i) /\ (i = 1 \/ raw[i - 1] = NL)}

\* raw.split(/^## /m): the texts between the matches, from position from on.
RECURSIVE SplitHeadings(_, _)
SplitHeadings(raw, from) ==
    LET later == {i \in HeadingStarts(raw) : i >= from}
    IN  IF later = {} THEN <<SubSeq(raw, from, Len(raw))>>
        ELSE LET h == CHOOSE i \in later : \A j \in later : i <= j
             IN  <<SubSeq(raw, from, h - 1)>>
                 \o SplitHeadings(raw, h + Len(T_H2))

\* .filter(Boolean)
RECURSIVE NonEmpty(_)
NonEmpty(parts) ==
    IF parts = <<>> THEN <<>>
    ELSE (IF Head(parts) # <<>> THEN <<Head(parts)>> ELSE <<>>)
         \o NonEmpty(Tail(parts))

Message(role, text) == [role |-> role, content |-> text]

\* The loop body: the messages one chunk contributes (none or one).
ChunkMessages(section) ==
    LET firstNewline == IndexOf(section, <<NL>>)
        heading == ToLowerCase(Trim(SubSeq(section, 1, firstNewline - 1)))
        text == Trim(Drop(section, firstNewline))
    IN  IF firstNewline = 0 THEN <<>>
        ELSE IF text = <<>> THEN <<>>
        ELSE IF heading = T_user THEN <<Message("user", text)>>
        ELSE IF heading = T_ai THEN <<Message("ai", text)>>
        ELSE <<>>

RECURSIVE ChunksMessages(_)
ChunksMessages(chunks) ==
    IF chunks = <<>> THEN <<>>
    ELSE ChunkMessages(Head(chunks)) \o ChunksMessages(Tail(chunks))

parseChatMessages(rawContent) ==
    ChunksMessages(NonEmpty(SplitHeadings(rawContent, 1)))

\* The chat component's own copy of the parser.
parseChatContent(raw) ==
    ChunksMessages(NonEmpty(SplitHeadings(raw, 1)))

MaxChatPieces == 4

ChatPieces ==
    { T_H2 \o <<"U", "s", "e", "r", NL>>,
      T_H2 \o <<"A", "I", NL>>,
      T_H2 \o <<"a", "i", SP, NL>>,
      T_H2 \o <<"B", "o", "t", NL>>,
      <<"U", "s", "e", "r", NL>>,
      <<"h", "i", NL>>,
      <<"y", "o">>,
      <<NL>>,
      <<SP>>,
      T_H2 }

ChatBodies == PieceTexts(ChatPieces, MaxChatPieces)

InitChat ==
    /\ body \in ChatBodies
    /\ intro = <<>>
    /\ sections = <<>>
    /\ loaded = [intro |-> <<>>, sections |-> <<>>]
    /\ phase = "raw"
    /\ messages = <<>>
    /\ IdleServer /\ IdleCodec /\ IdleName /\ IdleContent /\ IdleSave

\* The chat page parses the body of a chat.
ParseChat ==
    /\ phase = "raw"
    /\ messages' = parseChatMessages(body)
    /\ phase' = "parsed"
    /\ UNCHANGED <<body, intro, sections, loaded>>
    /\ UNCHANGED <<serverVars, codecVars, nameVars, contentVars, saveVars>>

\* The chat component parses raw content handed to it.
ParseChatContent ==
    /\ phase = "raw"
    /\ messages' = parseChatContent(body)
    /\ phase' = "parsedRaw"
    /\ UNCHANGED <<body, intro, sections, loaded>>
    /\ UNCHANGED <<serverVars, codecVars, nameVars, contentVars, saveVars>>

NextChat == ParseChat \/ ParseChatContent

SpecChat == InitChat /\ [][NextChat]_vars

\* The messages the claim describes: one for each line that begins with
\* "## ", whose text is "user" or "ai" in any case, and which is followed,
\* up to the next such line or the end, by text that is not blank.
RECURSIVE HeadingChunkMessages(_, _)
HeadingChunkMessages(lines, i) ==
    IF i > Len(lines) THEN <<>>
    ELSE IF ~StartsWith(lines[i], T_H2) THEN HeadingChunkMessages(lines, i + 1)
    ELSE LET later == {j \in (i + 1)..Len(lines) : StartsWith(lines[j], T_H2)}
             next == IF later = {} THEN Len(lines) + 1
                     ELSE CHOOSE j \in later : \A k \in later : j <= k
             heading == ToLowerCase(Trim(Drop(lines[i], Len(T_H2))))
             text == Trim(Join(SubSeq(lines, i + 1, next - 1), <<NL>>))
         IN  (IF heading \in {T_user, T_ai} /\ text # <<>>
              THEN <<Message(IF heading = T_user THEN "user" ELSE "ai", text)>>
              ELSE <<>>)
             \o HeadingChunkMessages(lines, next)

\* C9: the messages are exactly those of the level-2 heading chunks whose
\* heading is user or ai and whose content is not blank, in source order,
\* one message for each.
C9_MessagesOfHeadings ==
    phase \in {"parsed", "parsedRaw"} =>
        messages = HeadingChunkMessages(Split(body, NL), 1)

\* The lines of a chat body that begin with "## ".
ChatHeadingLines(lines) == {i \in 1..Len(lines) : StartsWith(lines[i], T_H2)}

\* The text that follows heading line i, up to the next heading line or
\* the end, trimmed.
TextUnderHeading(lines, i) ==
    LET later == {j \in ChatHeadingLines(lines) : j > i}
        next == IF later = {} THEN Len(lines) + 1
                ELSE CHOOSE j \in later : \A k \in later : j <= k
    IN  Trim(Join(SubSeq(lines, i + 1, next - 1), <<NL>>))

\* The role heading line i names: "user", "ai" or "other".
RoleOfHeading(lines, i) ==
    LET heading == ToLowerCase(Trim(Drop(lines[i], Len(T_H2))))
    IN  IF heading = T_user THEN "user"
        ELSE IF heading = T_ai THEN "ai" ELSE "other"

EveryMessageHasItsHeading ==
    LET lines == Split(body, NL)
    IN  /\ \A k \in 1..Len(messages) :
               \E i \in ChatHeadingLines(lines) :
                   /\ messages[k].role = RoleOfHeading(lines, i)
                   /\ messages[k].content = TextUnderHeading(lines, i)
                   /\ messages[k].content # <<>>
        /\ Len(messages) <=
               Cardinality({i \in ChatHeadingLines(lines) :
                               /\ RoleOfHeading(lines, i) # "other"
                               /\ TextUnderHeading(lines, i) # <<>>})

\* C21: every message is the message of a level-2 heading line, user or
\* ai, with the text that follows that heading and is not blank: the text
\* before the first heading is no message and part of none, and a heading
\* followed by white space only gives no message.
C21_PreambleAndEmptyDiscarded ==
    phase \in {"parsed", "parsedRaw"} => EveryMessageHasItsHeading

\* The same holds for the bodies that begin with a heading line.
C21_WithoutPreamble ==
    (phase \in {"parsed", "parsedRaw"} /\ StartsWith(body, T_H2))
        => EveryMessageHasItsHeading

----------------------------------------------------------------------------
\* The checklist toggle of the editable plan renderer

T_Unchecked == <<"-", SP, "[", SP, "]", SP>>
T_CheckedLower == <<"-", SP, "[", "x", "]", SP>>
T_CheckedUpper == <<"-", SP, "[", "X", "]", SP>>
T_EmptyBox == <<"[", SP, "]">>
T_XBox == <<"[", "x", "]">>

\* /^[-*]\s/
MatchesBullet(trimmed) ==
    Len(trimmed) >= 2 /\ trimmed[1] \in {"-", "*"} /\ trimmed[2] \in WhiteSpace

\* li.match(/^\[([ xX])\] (.+)/)
CheckMatch(li) ==
    /\ Len(li) >= 5
    /\ li[1] = "[" /\ li[2] \in {SP, "x", "X"} /\ li[3] = "]" /\ li[4] = SP

\* The texts of the checkbox items the renderer shows for content, each
\* with a button that toggles by that text.
CheckItemTexts(c) ==
    LET lines == Split(c, NL)
    IN  {Drop(Drop(Trim(lines[i]), 2), 4) :
            i \in {j \in 1..Len(lines) :
                     /\ MatchesBullet(Trim(lines[j]))
                     /\ CheckMatch(Drop(Trim(lines[j]), 2))}}

\* l.replace(/\[.\]/, '[ ]'): the first bracketed character becomes a space.
ReplaceFirstBox(l) ==
    LET hits == {i \in 1..(Len(l) - 2) : l[i] = "[" /\ l[i + 2] = "]"}
    IN  IF hits = {} THEN l
        ELSE LET i == CHOOSE h \in hits : \A k \in hits : h <= k
             IN  SubSeq(l, 1, i - 1) \o T_EmptyBox \o Drop(l, i + 2)

\* l.replace('[ ]', '[x]'): the first empty box becomes a checked one.
ReplaceFirstEmptyBox(l) ==
    LET i == IndexOf(l, T_EmptyBox)
    IN  IF i = 0 THEN l
        ELSE SubSeq(l, 1, i - 1) \o T_XBox \o Drop(l, i + 2)

ToggleLine(l, text) ==
    IF Trim(l) = T_CheckedLower \o text \/ Trim(l) = T_CheckedUpper \o text
    THEN ReplaceFirstBox(l)
    ELSE IF Trim(l) = T_Unchecked \o text THEN ReplaceFirstEmptyBox(l)
    ELSE l

\* The content the button of the item with this text hands to onCheckToggle.
ToggleContent(c, text) ==
    LET lines == Split(c, NL)
    IN  Join([i \in 1..Len(lines) |-> ToggleLine(lines[i], text)], <<NL>>)

MaxContentLines == 3
MaxClicks == 2

ToggleLines ==
    { <<>>, <<"T">>,
      T_Unchecked \o <<"T">>, T_CheckedLower \o <<"T">>,
      T_CheckedUpper \o <<"T">>, <<SP>> \o T_Unchecked \o <<"T">>,
      <<"*">> \o Drop(T_Unchecked, 1) \o <<"T">>, T_Unchecked \o <<"U">> }

ToggleContents ==
    {Join(ls, <<NL>>) : ls \in SeqsUpTo(ToggleLines, MaxContentLines) \ {<<>>}}

InitToggle ==
    /\ content \in ToggleContents
    /\ content0 = content
    /\ clicked = <<>>
    /\ blocks = NoBlocks
    /\ IdleServer /\ IdleCodec /\ IdleName /\ IdleSeg /\ IdleSave

\* A click on the checkbox of one of the items shown; the section's content
\* becomes the toggled content.
Click(text) ==
    /\ Len(clicked) < MaxClicks
    /\ text \in CheckItemTexts(content)
    /\ content' = ToggleContent(content, text)
    /\ clicked' = Append(clicked, text)
    /\ UNCHANGED <<content0, blocks, serverVars, codecVars, nameVars, segVars,
                   saveVars>>

NextToggle == \E text \in {<<"T">>, <<"U">>} : Click(text)

SpecToggle == InitToggle /\ [][NextToggle]_vars

\* C7: when the first item toggled is an unchecked line "- [ ] T" of the
\* content, the content after the toggle contains "- [x] T", and after a
\* second toggle of the same item the content is the original content again.
C7_ToggleInvolution ==
    (Len(clicked) >= 1 /\ Includes(content0, T_Unchecked \o clicked[1])) =>
        /\ Len(clicked) = 1 => Includes(content, T_CheckedLower \o clicked[1])
        /\ (Len(clicked) = 2 /\ clicked[2] = clicked[1]) => content = content0

\* The lines that show a checkbox for the item with this text: a bullet,
\* a bracketed space, x or X, a space and the text.
LinesOfItem(lines, text) ==
    {j \in 1..Len(lines) :
        \E bullet \in {"-", "*"}, w \in WhiteSpace, mark \in {SP, "x", "X"} :
            Trim(lines[j]) = <<bullet, w, "[", mark, "]", SP>> \o text}

\* The line with its marker flipped and nothing else changed: the
\* character between the first pair of brackets becomes x if it was a
\* space and a space otherwise.
FlipMarker(l) ==
    LET open == CHOOSE i \in 1..Len(l) :
                    l[i] = "[" /\ \A k \in 1..(i - 1) : l[k] # "["
    IN  [l EXCEPT ![open + 1] = IF @ = SP THEN "x" ELSE SP]

\* After one toggle, lines before and after: the lines of the set flipped
\* have their marker flipped and every other line is as it was.
OnlyFlipped(before, after, flipped) ==
    /\ Len(after) = Len(before)
    /\ \A i \in 1..Len(before) :
           after[i] = IF i \in flipped THEN FlipMarker(before[i])
                      ELSE before[i]

\* C22: a toggle flips the marker of every line whose trimmed text equals
\* the trimmed text of the line clicked, whichever of the lines showing the
\* item that is, and changes nothing else: the other lines, their number
\* and their order stay, and a flipped line differs in its marker only.
C22_ToggleFrame ==
    Len(clicked) = 1 =>
        LET before == Split(content0, NL)
        IN  \A j \in LinesOfItem(before, clicked[1]) :
                OnlyFlipped(before, Split(content, NL),
                            {i \in 1..Len(before) :
                                Trim(before[i]) = Trim(before[j])})

\* What holds instead: a toggle flips every line "- [ ] text", "- [x] text"
\* or "- [X] text" of the item's text, checked and unchecked alike, and
\* changes nothing else.
C22_FlipsBothMarkers ==
    Len(clicked) = 1 =>
        LET before == Split(content0, NL)
        IN  OnlyFlipped(before, Split(content, NL),
                        {i \in 1..Len(before) :
                            Trim(before[i]) \in
                                {T_Unchecked \o clicked[1],
                                 T_CheckedLower \o clicked[1],
                                 T_CheckedUpper \o clicked[1]}})

----------------------------------------------------------------------------
\* The block renderers: renderTextBlock behind parseBlocks (chat),
\* renderBlock (read-only plan) and ContentRenderer (editable plan)

\* The backtick character, which a TLA+ string cannot hold, by its name.
BQ == "backtick"
T_Fence == <<BQ, BQ, BQ>>
T_text == <<"t", "e", "x", "t">>

\* The emoji the texts of the model use: U+26A1, of the range
\* \u{2600}-\u{27BF} that both plan renderers test a quote's first
\* character for.
E_Zap == "⚡"
Emoji == {E_Zap}

\* A rendered element: its kind, the texts of its items, a mark for each
\* item where the element shows one, and the language of a code block.
Block(kind, items, marks, lang) ==
    [kind |-> kind, items |-> items, marks |-> marks, lang |-> lang]

\* The scan state: the elements pushed and the open list buffers.
ScanStart == [els |-> <<>>, ul |-> <<>>, ol |-> <<>>, cl |-> <<>>]

\* trimmed.match(/^[-*]\s\[([ xX])\]\s(.+)/)
MatchesChecklist(trimmed) ==
    /\ Len(trimmed) >= 7
    /\ MatchesBullet(trimmed)
    /\ trimmed[3] = "[" /\ trimmed[4] \in {SP, "x", "X"} /\ trimmed[5] = "]"
    /\ trimmed[6] \in WhiteSpace

\* The length of the match of /^\d+\.\s/, 0 when there is none.
RECURSIVE DigitsAt(_, _)
DigitsAt(s, i) ==
    IF i <= Len(s) /\ s[i] \in Digit THEN 1 + DigitsAt(s, i + 1) ELSE 0

OrderedPrefix(trimmed) ==
    LET d == DigitsAt(trimmed, 1)
    IN  IF /\ d >= 1 /\ Len(trimmed) >= d + 2
           /\ trimmed[d + 1] = "." /\ trimmed[d + 2] \in WhiteSpace
        THEN d + 2 ELSE 0

\* trimmed.replace(/^>\s?/, '')
QuoteText(trimmed) ==
    IF Len(trimmed) >= 2 /\ trimmed[2] \in WhiteSpace
    THEN Drop(trimmed, 2) ELSE Drop(trimmed, 1)

\* q.match(/^([emoji])\s*(.+)/u)
EmojiMatch(q) == Len(q) >= 2 /\ q[1] \in Emoji

\* The second group of that match; q ends with a character that is not
\* white space, so what follows the white space is not empty.
CalloutText(q) == TrimStart(Drop(q, 1))

\* /^-{3,}$/
MatchesRule(trimmed) ==
    Len(trimmed) >= 3 /\ \A i \in 1..Len(trimmed) : trimmed[i] = "-"

Push(st, el) == [st EXCEPT !.els = Append(@, el)]

FlushUl(st) ==
    IF st.ul # <<>>
    THEN [Push(st, Block("ul", st.ul, <<>>, <<>>)) EXCEPT !.ul = <<>>]
    ELSE st

FlushOl(st) ==
    IF st.ol # <<>>
    THEN [Push(st, Block("ol", st.ol, <<>>, <<>>)) EXCEPT !.ol = <<>>]
    ELSE st

FlushChecklist(st) ==
    IF st.cl # <<>>
    THEN [Push(st, Block("checklist",
                         [i \in 1..Len(st.cl) |-> st.cl[i].text],
                         [i \in 1..Len(st.cl) |-> st.cl[i].mark], <<>>))
          EXCEPT !.cl = <<>>]
    ELSE st

\* ContentRenderer's flushUl: one list whose items are checkbox items where
\* the item text matches the box pattern and bullet items elsewhere.
EditFlushUl(st) ==
    IF st.ul # <<>>
    THEN [Push(st, Block("ul",
             [i \in 1..Len(st.ul) |->
                 IF CheckMatch(st.ul[i]) THEN Drop(st.ul[i], 4) ELSE st.ul[i]],
             [i \in 1..Len(st.ul) |->
                 IF ~CheckMatch(st.ul[i]) THEN "bullet"
                 ELSE IF st.ul[i][2] # SP THEN "checked" ELSE "unchecked"],
             <<>>))
          EXCEPT !.ul = <<>>]
    ELSE st

\* One turn of renderTextBlock's loop over the lines.
TextBlockStep(st, line) ==
    LET trimmed == Trim(line)
        flushed == FlushOl(FlushUl(st))
    IN  IF trimmed = <<>> THEN flushed
        ELSE IF MatchesBullet(trimmed)
        THEN [FlushOl(st) EXCEPT !.ul = Append(@, Drop(trimmed, 2))]
        ELSE IF OrderedPrefix(trimmed) > 0
        THEN [FlushUl(st) EXCEPT
                 !.ol = Append(@, Drop(trimmed, OrderedPrefix(trimmed)))]
        ELSE IF StartsWith(trimmed, <<">">>)
        THEN Push(flushed, Block("blockquote", <<QuoteText(trimmed)>>,
                                 <<>>, <<>>))
        ELSE Push(flushed, Block("p", <<trimmed>>, <<>>, <<>>))

\* The callout or blockquote both plan renderers push for a quote line.
QuoteBlock(trimmed) ==
    LET q == QuoteText(trimmed)
    IN  IF EmojiMatch(q)
        THEN Block("callout", <<CalloutText(q)>>, <<q[1]>>, <<>>)
        ELSE Block("blockquote", <<q>>, <<>>, <<>>)

\* One turn of renderBlock's loop over the lines.
RenderBlockStep(st, line) ==
    LET trimmed == Trim(line)
        flushed == FlushChecklist(FlushOl(FlushUl(st)))
    IN  IF trimmed = <<>> THEN flushed
        ELSE IF MatchesChecklist(trimmed)
        THEN [FlushOl(FlushUl(st)) EXCEPT
                 !.cl = Append(@, [mark |-> IF trimmed[4] # SP THEN "checked"
                                            ELSE "unchecked",
                                   text |-> Drop(trimmed, 6)])]
        ELSE IF MatchesBullet(trimmed)
        THEN [FlushChecklist(FlushOl(st)) EXCEPT
                 !.ul = Append(@, Drop(trimmed, 2))]
        ELSE IF OrderedPrefix(trimmed) > 0
        THEN [FlushChecklist(FlushUl(st)) EXCEPT
                 !.ol = Append(@, Drop(trimmed, OrderedPrefix(trimmed)))]
        ELSE IF StartsWith(trimmed, <<">">>)
        THEN Push(flushed, QuoteBlock(trimmed))
        ELSE IF MatchesRule(trimmed)
        THEN Push(flushed, Block("hr", <<>>, <<>>, <<>>))
        ELSE Push(flushed, Block("p", <<trimmed>>, <<>>, <<>>))

\* One turn of ContentRenderer's loop over the lines.
ContentRendererStep(st, line) ==
    LET trimmed == Trim(line)
        flushed == FlushOl(EditFlushUl(st))
    IN  IF trimmed = <<>> THEN flushed
        ELSE IF MatchesBullet(trimmed)
        THEN [FlushOl(st) EXCEPT !.ul = Append(@, Drop(trimmed, 2))]
        ELSE IF OrderedPrefix(trimmed) > 0
        THEN [EditFlushUl(st) EXCEPT
                 !.ol = Append(@, Drop(trimmed, OrderedPrefix(trimmed)))]
        ELSE IF StartsWith(trimmed, <<">">>)
        THEN Push(flushed, QuoteBlock(trimmed))
        ELSE IF MatchesRule(trimmed)
        THEN Push(flushed, Block("hr", <<>>, <<>>, <<>>))
        ELSE Push(flushed, Block("p", <<trimmed>>, <<>>, <<>>))

RECURSIVE TextBlockScan(_, _), RenderBlockScan(_, _), ContentRendererScan(_, _)
TextBlockScan(st, lines) ==
    IF lines = <<>> THEN st
    ELSE TextBlockScan(TextBlockStep(st, Head(lines)), Tail(lines))

RenderBlockScan(st, lines) ==
    IF lines = <<>> THEN st
    ELSE RenderBlockScan(RenderBlockStep(st, Head(lines)), Tail(lines))

ContentRendererScan(st, lines) ==
    IF lines = <<>> THEN st
    ELSE ContentRendererScan(ContentRendererStep(st, Head(lines)), Tail(lines))

\* The elements each renderer returns for a text.
renderTextBlock(text) ==
    FlushOl(FlushUl(TextBlockScan(ScanStart, Split(text, NL)))).els

renderBlock(c) ==
    IF c = <<>> THEN <<>>
    ELSE FlushChecklist(FlushOl(FlushUl(
             RenderBlockScan(ScanStart, Split(c, NL))))).els

ContentRenderer(c) ==
    FlushOl(EditFlushUl(ContentRendererScan(ScanStart, Split(c, NL)))).els

\* The number of \w characters of s from position i on.
RECURSIVE WordCharsAt(_, _)
WordCharsAt(s, i) ==
    IF i <= Len(s) /\ s[i] \in WordChar THEN 1 + WordCharsAt(s, i + 1) ELSE 0

\* The code regex /```(\w*)\n([\s\S]*?)```/ matches at position i of s.
CodeRegexAt(s, i) ==
    LET n == i + Len(T_Fence) + WordCharsAt(s, i + Len(T_Fence))
    IN  /\ OccursAt(s, T_Fence, i)
        /\ n <= Len(s) /\ s[n] = NL
        /\ \E c \in (n + 1)..Len(s) : OccursAt(s, T_Fence, c)

Segment(type, text, language) ==
    [type |-> type, content |-> text, language |-> language]

\* The text segment parseBlocks pushes for a slice, none when it is blank.
TextSegment(slice) ==
    IF Trim(slice) # <<>> THEN <<Segment("text", Trim(slice), <<>>)>> ELSE <<>>

\* parseBlocks' loop, from lastIndex (1-based here) on.
RECURSIVE ParseBlocksFrom(_, _)
ParseBlocksFrom(s, lastIndex) ==
    LET found == {i \in lastIndex..Len(s) : CodeRegexAt(s, i)}
    IN  IF found = {}
        THEN TextSegment(SubSeq(s, lastIndex, Len(s)))
        ELSE LET i == CHOOSE f \in found : \A g \in found : f <= g
                 w == WordCharsAt(s, i + Len(T_Fence))
                 n == i + Len(T_Fence) + w
                 c == CHOOSE k \in (n + 1)..Len(s) :
                        /\ OccursAt(s, T_Fence, k)
                        /\ \A j \in (n + 1)..(k - 1) : ~OccursAt(s, T_Fence, j)
                 lang == SubSeq(s, i + Len(T_Fence), n - 1)
             IN  TextSegment(SubSeq(s, lastIndex, i - 1))
                 \o <<Segment("code", TrimEnd(SubSeq(s, n + 1, c - 1)),
                              IF lang = <<>> THEN T_text ELSE lang)>>
                 \o ParseBlocksFrom(s, c + Len(T_Fence))

parseBlocks(c) == ParseBlocksFrom(c, 1)

\* What a message bubble shows: a code block for a code segment, the
\* elements of renderTextBlock for a text segment.
RECURSIVE BubbleBlocks(_)
BubbleBlocks(segs) ==
    IF segs = <<>> THEN <<>>
    ELSE (IF Head(segs).type = "code"
          THEN <<Block("code", <<Head(segs).content>>, <<>>,
                       Head(segs).language)>>
          ELSE renderTextBlock(Head(segs).content))
         \o BubbleBlocks(Tail(segs))

MessageBubble(c) == BubbleBlocks(parseBlocks(c))

MaxRenderLines == 3

T_a == <<"a">>
PlainLines ==
    { <<>>, T_a, <<"-", SP>> \o T_a, T_Unchecked \o T_a,
      T_CheckedLower \o T_a, <<"1", ".", SP>> \o T_a, <<">", SP>> \o T_a,
      <<">", SP, E_Zap, SP>> \o T_a, T_Delim }

FencedLines ==
    { <<>>, T_a, <<"-", SP>> \o T_a, T_Unchecked \o T_a,
      <<">", SP>> \o T_a, T_Delim }

OutsideLines == { <<>>, T_a, <<"-", SP>> \o T_a, T_Unchecked \o T_a }

OpeningFences == { T_Fence, T_Fence \o <<"j", "s">> }

\* Texts without a fence, and texts with one fenced span, an optional line
\* before it and an optional line after it.
RenderContents ==
    {Join(ls, <<NL>>) : ls \in SeqsUpTo(PlainLines, MaxRenderLines) \ {<<>>}}
    \cup
    {Join(pre \o <<open>> \o inner \o <<T_Fence>> \o post, <<NL>>) :
        pre \in SeqsUpTo(OutsideLines, 1), open \in OpeningFences,
        inner \in SeqsUpTo(FencedLines, MaxRenderLines - 1),
        post \in SeqsUpTo(OutsideLines, 1)}

InitRender ==
    /\ content \in RenderContents
    /\ content0 = content
    /\ clicked = <<>>
    /\ blocks = NoBlocks
    /\ IdleServer /\ IdleCodec /\ IdleName /\ IdleSeg /\ IdleSave

Rendered(r, els) ==
    /\ r \notin blocks.done
    /\ blocks' = [blocks EXCEPT ![r] = els, !.done = @ \cup {r}]
    /\ UNCHANGED <<content, content0, clicked,
                   serverVars, codecVars, nameVars, segVars, saveVars>>

RenderChat == Rendered("chat", MessageBubble(content))

RenderPlan == Rendered("plan", renderBlock(content))

RenderEdit == Rendered("edit", ContentRenderer(content))

NextRender == RenderChat \/ RenderPlan \/ RenderEdit

SpecRender == InitRender /\ [][NextRender]_vars

\* An opening fence line: three backticks and an optional language word.
IsOpeningFence(line) ==
    StartsWith(line, T_Fence)
    /\ \A i \in (Len(T_Fence) + 1)..Len(line) : line[i] \in WordChar

\* The content has one fenced span: two lines hold backticks, the first an
\* opening fence and the second a closing fence.
FenceLineNumbers(lines) == {i \in 1..Len(lines) : Includes(lines[i], <<BQ>>)}

HasOneFencedSpan(lines) ==
    /\ Cardinality(FenceLineNumbers(lines)) = 2
    /\ \E o, c \in FenceLineNumbers(lines) :
          o < c /\ IsOpeningFence(lines[o]) /\ lines[c] = T_Fence

OpeningLine(lines) == CHOOSE o \in FenceLineNumbers(lines) :
                         \A k \in FenceLineNumbers(lines) : o <= k

ClosingLine(lines) == CHOOSE c \in FenceLineNumbers(lines) :
                         \A k \in FenceLineNumbers(lines) : k <= c

IsCodeBlock(b) == b.kind = "code"

IsOtherBlock(b) == b.kind # "code"

RenderedBy(r, text) ==
    IF r = "chat" THEN MessageBubble(text)
    ELSE IF r = "plan" THEN renderBlock(text)
    ELSE ContentRenderer(text)

\* C8: in every renderer, the lines between an opening and a closing fence
\* make one code block that holds them as written (up to white space at the
\* end), and every other block comes from the lines outside the fences, so
\* that no fenced line is a list item, checklist item, blockquote, divider
\* or paragraph.
C8_FencedLinesAreCode ==
    \A r \in blocks.done :
        LET lines == Split(content, NL)
            o == OpeningLine(lines)
            c == ClosingLine(lines)
            fenced == Join(SubSeq(lines, o + 1, c - 1), <<NL>>)
            before == Join(SubSeq(lines, 1, o - 1), <<NL>>)
            after == Join(SubSeq(lines, c + 1, Len(lines)), <<NL>>)
            code == SelectSeq(blocks[r], IsCodeBlock)
        IN  HasOneFencedSpan(lines) =>
                /\ Len(code) = 1 /\ code[1].items = <<TrimEnd(fenced)>>
                /\ SelectSeq(blocks[r], IsOtherBlock)
                       = RenderedBy(r, before) \o RenderedBy(r, after)

\* The same for the chat renderer alone.
C8_ChatFencedLinesAreCode ==
    "chat" \in blocks.done =>
        LET lines == Split(content, NL)
            o == OpeningLine(lines)
            c == ClosingLine(lines)
            fenced == Join(SubSeq(lines, o + 1, c - 1), <<NL>>)
            before == Join(SubSeq(lines, 1, o - 1), <<NL>>)
            after == Join(SubSeq(lines, c + 1, Len(lines)), <<NL>>)
            code == SelectSeq(blocks.chat, IsCodeBlock)
        IN  HasOneFencedSpan(lines) =>
                /\ Len(code) = 1 /\ code[1].items = <<TrimEnd(fenced)>>
                /\ SelectSeq(blocks.chat, IsOtherBlock)
                       = MessageBubble(before) \o MessageBubble(after)

----------------------------------------------------------------------------
\* The encoder's output, field by field

\* The text of s with each backslash doubled and each double quote preceded
\* by a backslash.
RECURSIVE Escaped(_)
Escaped(s) ==
    IF s = <<>> THEN <<>>
    ELSE (IF Head(s) = BSLASH THEN <<BSLASH, BSLASH>>
          ELSE IF Head(s) = QUOTE THEN <<BSLASH, QUOTE>>
          ELSE <<Head(s)>>) \o Escaped(Tail(s))

\* A scalar as the claims describe its emission: a string quoted and
\* escaped, a boolean or a number as its bare text.
EmittedScalar(value) ==
    IF value.t = "string" THEN <<QUOTE>> \o Escaped(value.v) \o <<QUOTE>>
    ELSE value.v

AllScalar(h) == \A i \in 1..Len(h) : IsScalar(h[i].value)

\* C11: a header of scalar fields is written as one line "key: value" for
\* each field, a string double-quoted with its backslashes doubled and its
\* double quotes preceded by a backslash, a boolean or a number as bare text;
\* say "hi" is written "say \"hi\"".
C11_ScalarSerialization ==
    (doc # None /\ AllScalar(hdr)) =>
        /\ doc = T_Open
                 \o Join([i \in 1..Len(hdr) |->
                             hdr[i].key \o T_ColonSp \o EmittedScalar(hdr[i].value)],
                         <<NL>>)
                 \o T_Close \o Trim(bodyText) \o <<NL>>
        /\ hdr[1].value = Str(V_SayHi) =>
               Includes(doc, <<QUOTE, "s", "a", "y", SP, BSLASH, QUOTE, "h", "i",
                               BSLASH, QUOTE, QUOTE, NL>>)

\* A document is written whose title holds a backslash and a double quote
\* and whose second field is a number.
C11_Witness ==
    /\ doc # None
    /\ AllScalar(hdr)
    /\ Includes(hdr[1].value.v, <<BSLASH>>) /\ Includes(hdr[1].value.v, <<QUOTE>>)
    /\ hdr[2].value.t = "number"

\* The header is a title and one other field.
TitleAnd(h) == Len(h) = 2 /\ h[1].key = T_title /\ h[1].value.t = "string"

\* The document written for a title and the lines of the other field.
TitledDocument(lines) ==
    T_Open
    \o Join(<<T_title \o T_ColonSp \o EmittedScalar(hdr[1].value)>> \o lines,
            <<NL>>)
    \o T_Close \o Trim(bodyText) \o <<NL>>

\* key: ["e1", "e2"], and key: [] for no element
InlineList(key, items) ==
    key \o T_ColonSp \o <<"[">>
    \o Join([i \in 1..Len(items) |-> <<QUOTE>> \o items[i] \o <<QUOTE>>],
            T_CommaSp)
    \o <<"]">>

\* C12: a field whose value is an array of strings is written as exactly one
\* line key: [..], each element double-quoted, the elements separated by
\* ", " in input order, and the empty array as key: [].
C12_StringArrayInline ==
    (doc # None /\ TitleAnd(hdr) /\ hdr[2].value.t = "strings") =>
        doc = TitledDocument(<<InlineList(hdr[2].key, hdr[2].value.items)>>)

\* The same for the field named tags alone.
C12_TagsInline ==
    (doc # None /\ TitleAnd(hdr) /\ hdr[2].value.t = "strings"
     /\ hdr[2].key = T_tags) =>
        doc = TitledDocument(<<InlineList(T_tags, hdr[2].value.items)>>)

T_ItemTask == <<SP, SP, "-", SP, "t", "a", "s", "k">> \o T_ColonSp
T_ItemDone == <<SP, SP, SP, SP>> \o T_done \o T_ColonSp

\* The indented sub-block of one record: every field of the record, a string
\* quoted and a boolean or number bare.
RecordBlock(key, rec) ==
    IF key = T_milestones
    THEN << T_ItemTitle \o EmittedScalar(Str(rec.title)),
            T_ItemWeeks \o EmittedScalar(Str(rec.weeks)),
            T_ItemStatus \o EmittedScalar(Str(rec.status)) >>
    ELSE << T_ItemTask \o EmittedScalar(rec.task),
            T_ItemDone \o EmittedScalar(rec.done) >>

RECURSIVE RecordBlocks(_, _)
RecordBlocks(key, recs) ==
    IF recs = <<>> THEN <<>>
    ELSE RecordBlock(key, Head(recs)) \o RecordBlocks(key, Tail(recs))

\* C13: the milestones field and the action_items field are written as a
\* line "key:" followed by one indented sub-block for each record, in input
\* order, with every field of the record, strings quoted and booleans and
\* numbers bare.
C13_RecordArrayBlock ==
    (doc # None /\ TitleAnd(hdr) /\ hdr[2].value.t = "records"
     /\ hdr[2].key \in {T_milestones, T_action_items}) =>
        doc = TitledDocument(<<hdr[2].key \o <<":">> >>
                             \o RecordBlocks(hdr[2].key, hdr[2].value.recs))

\* The same for the milestones field alone.
C13_MilestonesBlock ==
    (doc # None /\ TitleAnd(hdr) /\ hdr[2].value.t = "records"
     /\ hdr[2].key = T_milestones) =>
        doc = TitledDocument(<<T_milestones \o <<":">> >>
                             \o RecordBlocks(T_milestones, hdr[2].value.recs))

IsAbsent(value) == value.t \in {"undefined", "null"}

\* The lines of the scalar fields of a header, in the header's order.
RECURSIVE PresentLines(_)
PresentLines(h) ==
    IF h = <<>> THEN <<>>
    ELSE (IF IsAbsent(Head(h).value) THEN <<>>
          ELSE <<Head(h).key \o T_ColonSp \o EmittedScalar(Head(h).value)>>)
         \o PresentLines(Tail(h))

\* C14: nothing is written for a field whose value is undefined or null, and
\* the other fields are written once each, in the order of the header.
C14_AbsentFieldsOmitted ==
    (doc # None
     /\ \A i \in 1..Len(hdr) : IsScalar(hdr[i].value) \/ IsAbsent(hdr[i].value)) =>
        doc = T_Open \o Join(PresentLines(hdr), <<NL>>)
                 \o T_Close \o Trim(bodyText) \o <<NL>>

\* A header is written whose second field is null and whose third is a
\* scalar.
C14_Witness ==
    /\ doc # None
    /\ Len(hdr) = 3
    /\ hdr[2].value.t = "null"
    /\ IsScalar(hdr[3].value)

\* key: ["e1", "e2"] with every element escaped as a string scalar is.
EscapedList(key, items) ==
    key \o T_ColonSp \o <<"[">>
    \o Join([i \in 1..Len(items) |-> EmittedScalar(Str(items[i]))], T_CommaSp)
    \o <<"]">>

\* The lines of the second field of a header, every string in them
\* double-quoted and escaped.
QuotedLines(entry) ==
    IF entry.value.t = "string"
    THEN <<entry.key \o T_ColonSp \o EmittedScalar(entry.value)>>
    ELSE IF entry.value.t = "strings"
    THEN <<EscapedList(entry.key, entry.value.items)>>
    ELSE <<T_milestones \o <<":">> >>
         \o RecordBlocks(T_milestones, entry.value.recs)

IsStringField(entry) ==
    \/ entry.value.t = "string"
    \/ entry.key = T_tags /\ entry.value.t = "strings"
    \/ entry.key = T_milestones /\ entry.value.t = "records"

StringsAreEscaped ==
    (doc # None /\ TitleAnd(hdr) /\ IsStringField(hdr[2]))
        => doc = TitledDocument(QuotedLines(hdr[2]))

\* C23: every string the encoder writes, a top-level scalar, an element of
\* tags, a title, weeks or status of a milestone, is double-quoted with its
\* backslashes doubled and its double quotes preceded by a backslash.
C23_StringsQuotedEscaped == StringsAreEscaped

\* The same holds when no element of tags holds a double quote or a
\* backslash.
C23_PlainTags ==
    (hdr # None /\ Len(hdr) >= 2 /\ hdr[2].value.t = "strings"
     /\ \E i \in 1..Len(hdr[2].value.items) :
            \E c \in {QUOTE, BSLASH} : Includes(hdr[2].value.items[i], <<c>>))
    \/ StringsAreEscaped

----------------------------------------------------------------------------
\* The lightweight decoder on any file text

MaxDocPieces == 4

DocPieces ==
    { T_Open, T_Delim, <<NL>>, <<"x">>,
      <<"k", ":", SP, "v", NL>>,
      <<"k", ":", SP, "w", NL>>,
      <<SP, SP, "i", ":", SP, "1", NL>>,
      <<TAB, "j", ":", SP, "2", NL>>,
      <<"q", ":", SP, QUOTE, "a", BSLASH, QUOTE, "b", QUOTE, NL>> }

RawDocs == PieceTexts(DocPieces, MaxDocPieces)

InitDecode ==
    /\ doc \in RawDocs
    /\ hdr = None
    /\ bodyText = None
    /\ decoded = Undefined
    /\ IdleServer /\ IdleName /\ IdleSeg /\ IdleContent /\ IdleSave

NextDecode == Decode

SpecDecode == InitDecode /\ [][NextDecode]_vars

\* The line that closes the header block: the first line that begins with
\* "---" after an opening line "---" at the very start and at least one
\* line of the block; 0 when there is no such block.
BlockClose(lines) ==
    LET closing == {i \in 3..Len(lines) : StartsWith(lines[i], T_Delim)}
    IN  IF lines[1] # T_Delim \/ closing = {} THEN 0
        ELSE CHOOSE i \in closing : \A j \in closing : i <= j

KeyOf(line) == Trim(SubSeq(line, 1, IndexOf(line, <<":">>) - 1))

\* The value of a line, one pair of surrounding double quotes stripped.
ValueOf(line) ==
    LET val == Trim(Drop(line, IndexOf(line, <<":">>)))
    IN  IF Len(val) >= 2 /\ val[1] = QUOTE /\ val[Len(val)] = QUOTE
        THEN SubSeq(val, 2, Len(val) - 1) ELSE val

\* The top-level "key: value" lines of the block: those that hold a colon
\* after a key and do not begin with a character of indent.
FieldLines(lines, indent) ==
    {i \in 2..(BlockClose(lines) - 1) :
        /\ lines[i] # <<>> /\ lines[i][1] \notin indent
        /\ Includes(lines[i], <<":">>)
        /\ KeyOf(lines[i]) # <<>>}

\* The decoder returned nothing without a block, and otherwise entries of
\* the field lines only and one for the key of each field line.
DecodesFieldLines(indent) ==
    LET lines == Split(doc, NL)
        fields == FieldLines(lines, indent)
    IN  decoded.t = "object" =>
            /\ BlockClose(lines) = 0 => decoded.entries = <<>>
            /\ \A n \in 1..Len(decoded.entries) :
                  \E i \in fields :
                      /\ decoded.entries[n].key = KeyOf(lines[i])
                      /\ decoded.entries[n].val = ValueOf(lines[i])
            /\ \A i \in fields :
                  \E n \in 1..Len(decoded.entries) :
                      decoded.entries[n].key = KeyOf(lines[i])

\* C15: without a header block at the very start the decoder returns the
\* empty mapping; otherwise it returns entries for the top-level
\* "key: value" lines of the block only, none for a line that begins with
\* white space, with one pair of surrounding double quotes stripped from the
\* value and nothing unescaped.
C15_DecoderFailsSoft == DecodesFieldLines(WhiteSpace)

\* The same where only a space counts as indentation.
C15_SpaceIndentOnly == DecodesFieldLines({SP})

\* What a renderer's output says about the lines: the kinds of the blocks,
\* in order, each with the texts of its lines.
BlockSequence(els) ==
    [i \in 1..Len(els) |-> [kind |-> els[i].kind, items |-> els[i].items]]

AllRendered == blocks.done = {"chat", "plan", "edit"}

\* C18: the chat text renderer, the read-only plan renderer and the
\* editable plan renderer give every content the same sequence of blocks:
\* the same kinds in the same order, holding the same lines.
C18_OneSharedRenderer ==
    AllRendered =>
        /\ BlockSequence(blocks.chat) = BlockSequence(blocks.plan)
        /\ BlockSequence(blocks.plan) = BlockSequence(blocks.edit)

\* Lines that are plain text, bullets or numbered items only.
IsCommonLine(line) ==
    LET trimmed == Trim(line)
    IN  /\ ~MatchesChecklist(trimmed)
        /\ ~StartsWith(trimmed, <<">">>)
        /\ ~MatchesRule(trimmed)
        /\ ~StartsWith(trimmed, T_Fence)

\* The three renderers agree on contents of plain text, bullets and
\* numbered items.
C18_CommonLinesAgree ==
    (AllRendered /\ \A i \in 1..Len(Split(content, NL)) :
                        IsCommonLine(Split(content, NL)[i])) =>
        /\ BlockSequence(blocks.chat) = BlockSequence(blocks.plan)
        /\ BlockSequence(blocks.plan) = BlockSequence(blocks.edit)

\* The kind of run a line belongs to: a checklist item, a bullet item, a
\* numbered item, a blank line, or a line that is a block of its own
\* (paragraph, blockquote, callout, divider).
RunKind(line) ==
    LET t == Trim(line)
    IN  IF t = <<>> THEN "blank"
        ELSE IF /\ Len(t) >= 7 /\ t[1] \in {"-", "*"} /\ t[2] \in WhiteSpace
                /\ t[3] = "[" /\ t[4] \in {SP, "x", "X"} /\ t[5] = "]"
                /\ t[6] \in WhiteSpace
        THEN "checklist"
        ELSE IF Len(t) >= 2 /\ t[1] \in {"-", "*"} /\ t[2] \in WhiteSpace
        THEN "ul"
        ELSE IF \E d \in 1..Len(t) :
                    /\ \A k \in 1..d : t[k] \in Digit
                    /\ Len(t) >= d + 2 /\ t[d + 1] = "." /\ t[d + 2] \in WhiteSpace
        THEN "ol"
        ELSE "single"

\* The runs of the lines from i on, in order: the kind of each and the
\* number of its lines.  Lines of the same list kind that follow each other
\* make one run; every other line that is not blank is a run of its own.
RECURSIVE RunsFrom(_, _)
RunsFrom(lines, i) ==
    IF i > Len(lines) THEN <<>>
    ELSE IF RunKind(lines[i]) = "blank" THEN RunsFrom(lines, i + 1)
    ELSE IF RunKind(lines[i]) = "single"
    THEN <<[kind |-> "single", n |-> 1]>> \o RunsFrom(lines, i + 1)
    ELSE LET other == {j \in i..Len(lines) : RunKind(lines[j]) # RunKind(lines[i])}
             end == IF other = {} THEN Len(lines) + 1
                    ELSE CHOOSE j \in other : \A k \in other : j <= k
         IN  <<[kind |-> RunKind(lines[i]), n |-> end - i]>>
             \o RunsFrom(lines, end)

\* The run a rendered block stands for.
RunOfBlock(b) ==
    IF b.kind = "ol" THEN [kind |-> "ol", n |-> Len(b.items)]
    ELSE IF b.kind = "checklist" THEN [kind |-> "checklist", n |-> Len(b.items)]
    ELSE IF b.kind = "ul"
    THEN [kind |-> IF \A i \in 1..Len(b.marks) : b.marks[i] = "bullet"
                   THEN "ul"
                   ELSE IF \A i \in 1..Len(b.marks) : b.marks[i] # "bullet"
                   THEN "checklist" ELSE "mixed",
          n |-> Len(b.items)]
    ELSE [kind |-> "single", n |-> 1]

\* How many of the scan's list buffers hold items.
OpenRuns(st) == Cardinality({f \in {"ul", "ol", "cl"} : st[f] # <<>>})

\* The scan state of a renderer after the first k lines.
ScanAfter(r, lines, k) ==
    IF r = "plan" THEN RenderBlockScan(ScanStart, SubSeq(lines, 1, k))
    ELSE ContentRendererScan(ScanStart, SubSeq(lines, 1, k))

RunsAreBlocks(r) ==
    LET lines == Split(content, NL)
    IN  r \in blocks.done =>
            /\ \A k \in 0..Len(lines) : OpenRuns(ScanAfter(r, lines, k)) <= 1
            /\ [i \in 1..Len(blocks[r]) |-> RunOfBlock(blocks[r][i])]
                   = RunsFrom(lines, 1)

\* C24: in both plan renderers at most one run is open after any number of
\* lines, and the blocks are the runs of the content in source order: one
\* block for each run of checklist items, of bullet items or of numbered
\* items, closed by a blank line, a line of another kind or the end, and one
\* block for every other line that is not blank.
C24_RunsFlushAsBlocks == RunsAreBlocks("plan") /\ RunsAreBlocks("edit")

\* The same for the read-only plan renderer alone.
C24_ReadOnlyRenderer == RunsAreBlocks("plan")

(***************************************************************************)
(* The plan editor's auto-save: the effect that runs after every change of *)
(* state calls schedulesSave, which replaces the pending timeout by a new  *)
(* one; the timeout's callback issues the write request.  Time is counted  *)
(* in milliseconds.  A timeout runs when it is due, before any later edit. *)
(* Of the editor's state only intro and sections are modelled; the header  *)
(* fields are saved the same way.                                          *)
(***************************************************************************)

\* setTimeout(..., 1200)
Delay == 1200

MaxEdits == 2
MaxSections == 1

T_NewSection == <<"N", "e", "w", SP, "S", "e", "c", "t", "i", "o", "n">>
T_NewSubsection == <<"N", "e", "w", SP, "S", "u", "b", "s", "e", "c", "t", "i", "o", "n">>

\* The texts an edit leaves in a field; deleting the last character leaves
\* the empty text.
EditTexts == { <<>>, <<"b">> }

SaveBodies == { <<"a">>, <<"a", NL>> \o T_H2 \o <<"S", NL, "x">> }

\* How long the model lets time pass in one step.
Waits == { Delay \div 3, Delay \div 2 }

\* The timeout schedulesSave sets: its callback closes over the intro and
\* the sections of the render that created it.
Timeout(id, introText, ss) ==
    [id |-> id, left |-> Delay, intro |-> introText, sections |-> ss]

MutClearNothing(pending, id) == pending

\* if (saveTimer.current) clearTimeout(saveTimer.current)
ClearTimeout(pending, id) == {t \in pending : t.id # id}

MutStatusAlwaysSaved(outcome) == "saved"

\* setSaveStatus(res.ok ? 'saved' : 'error'); catch { setSaveStatus('error') }
StatusAfter(outcome) == IF outcome = "ok" THEN "saved" ELSE "error"

Failures == {"not ok", "thrown"}

InitSave ==
    /\ body \in SaveBodies
    /\ intro = parseIntro(body)
    /\ sections = parseSections(body)
    /\ loaded = [intro |-> intro, sections |-> sections]
    /\ phase = "loaded"
    /\ messages = <<>>
    /\ IdleSave
    /\ IdleServer /\ IdleCodec /\ IdleName /\ IdleContent

\* A setter changed intro or sections: the component renders again and the
\* effect calls the schedulesSave of that render.
Edited(introText, ss) ==
    /\ edits < MaxEdits
    /\ \A t \in timers : t.left > 0
    /\ intro' = introText
    /\ sections' = ss
    /\ saveStatus' = "unsaved"
    /\ timers' = ClearTimeout(timers, saveTimer)
                     \cup {Timeout(edits + 1, introText, ss)}
    /\ saveTimer' = edits + 1
    /\ edits' = edits + 1
    /\ bursts' = IF edits = 0 \/ sinceEdit >= Delay THEN bursts + 1 ELSE bursts
    /\ sinceEdit' = 0
    /\ UNCHANGED <<writes, body, loaded, phase, messages>>
    /\ UNCHANGED <<serverVars, codecVars, nameVars, contentVars>>

SetIntro(v) == v # intro /\ Edited(v, sections)

updateSection(i, field, v) ==
    /\ i \in 1..Len(sections)
    /\ Edited(intro, [sections EXCEPT ![i][field] = v])

addSection(level) ==
    /\ Len(sections) < MaxSections
    /\ Edited(intro,
              Append(sections,
                     Section(level,
                             IF level = 2 THEN T_NewSection ELSE T_NewSubsection,
                             <<>>)))

removeSection(i) ==
    /\ i \in 1..Len(sections)
    /\ Edited(intro, [k \in 1..(Len(sections) - 1) |->
                          IF k < i THEN sections[k] ELSE sections[k + 1]])

\* Time passes, up to the moment the next timeout is due.
Elapse(d) ==
    LET step == CHOOSE m \in {d} \cup {t.left : t \in timers} :
                    \A n \in {d} \cup {t.left : t \in timers} : m <= n
    IN  /\ step > 0
        /\ timers # {} \/ sinceEdit < Delay
        /\ timers' = {[t EXCEPT !.left = @ - step] : t \in timers}
        /\ sinceEdit' = IF sinceEdit + step > Delay THEN Delay
                        ELSE sinceEdit + step
        /\ UNCHANGED <<saveStatus, saveTimer, edits, bursts, writes>>
        /\ UNCHANGED <<serverVars, codecVars, nameVars, segVars, contentVars>>

\* The callback of a due timeout, up to its await: the write request is
\* issued with the body built from the intro and sections it closed over.
TimeoutRuns ==
    \E t \in timers :
        /\ t.left = 0
        /\ timers' = timers \ {t}
        /\ saveStatus' = "saving"
        /\ writes' = Append(writes,
                            [body |-> sectionsToBody(t.intro, t.sections),
                             edit |-> t.id,
                             outcome |-> "sent"])
        /\ UNCHANGED <<saveTimer, edits, bursts, sinceEdit>>
        /\ UNCHANGED <<serverVars, codecVars, nameVars, segVars, contentVars>>

\* The rest of the callback: the request was answered OK (the endpoint has
\* stored the body), answered not OK, or fetch threw.
Answered(i, outcome) ==
    /\ i \in 1..Len(writes)
    /\ writes[i].outcome = "sent"
    /\ writes' = [writes EXCEPT ![i].outcome = outcome]
    /\ saveStatus' = StatusAfter(outcome)
    /\ body' = IF outcome = "ok" THEN Trim(writes[i].body) \o <<NL>> ELSE body
    /\ UNCHANGED <<timers, saveTimer, edits, bursts, sinceEdit>>
    /\ UNCHANGED <<intro, sections, loaded, phase, messages>>
    /\ UNCHANGED <<serverVars, codecVars, nameVars, contentVars>>

NextSave ==
    \/ \E v \in EditTexts : SetIntro(v)
    \/ \E i \in 1..MaxSections, f \in {"title", "content"}, v \in EditTexts :
           updateSection(i, f, v)
    \/ \E level \in {2, 3} : addSection(level)
    \/ \E i \in 1..MaxSections : removeSection(i)
    \/ \E d \in Waits : Elapse(d)
    \/ TimeoutRuns
    \/ \E i \in 1..MaxEdits, o \in {"ok"} \cup Failures : Answered(i, o)

SpecSave == InitSave /\ [][NextSave]_vars

\* A write request is issued in this step.
Issues == Len(writes') = Len(writes) + 1

\* C16: debounce coalescing: no write request is issued before the first
\* edit; every burst of edits, each less than the delay after the one
\* before, gets exactly one write request, so that the requests issued are
\* as many as the bursts once no timeout is pending and never more; and a
\* request is issued only when the delay has elapsed since the last edit,
\* carrying the body of the editor's state as that edit left it.
C16_DebounceCoalescing ==
    /\ [](edits = 0 => writes = <<>>)
    /\ [](Len(writes) <= bursts)
    /\ [](timers = {} => Len(writes) = bursts)
    /\ [][Len(writes') >= Len(writes)]_vars
    /\ [][Len(writes') > Len(writes) =>
            /\ Issues
            /\ sinceEdit >= Delay
            /\ Len(writes') = bursts
            /\ writes'[Len(writes')].body = sectionsToBody(intro, sections)]_vars

\* A burst of two edits has been written by one request.
C16_Witness ==
    /\ edits = 2
    /\ bursts = 1
    /\ Len(writes) = 1
    /\ writes[1].edit = 2
    /\ writes[1].body = sectionsToBody(intro, sections)

CurrentStateSaved ==
    \E i \in 1..Len(writes) :
        /\ writes[i].outcome = "ok"
        /\ writes[i].body = sectionsToBody(intro, sections)

\* C26: the indicator is truthful: once an edit was made, the status is
\* 'saved' only when a write request carrying the editor's current state
\* has succeeded.
C26_SavedMeansSaved ==
    (saveStatus = "saved" /\ edits > 0) => CurrentStateSaved

\* The same where one request was issued and no timeout is pending.
C26_SingleRequest ==
    (saveStatus = "saved" /\ edits > 0 /\ Len(writes) = 1 /\ timers = {})
        => CurrentStateSaved

\* Edits were made, no timeout is pending and every request was answered.
Quiescent ==
    /\ edits > 0
    /\ timers = {}
    /\ writes # <<>>
    /\ \A i \in 1..Len(writes) : writes[i].outcome # "sent"

\* C27: at quiescence the status shows the outcome of the last request
\* issued, which carried the final state, and when that request succeeded
\* the stored body is the body of the final state.
C27_QuiescentConsistency ==
    Quiescent =>
        LET last == writes[Len(writes)]
        IN  /\ last.body = sectionsToBody(intro, sections)
            /\ saveStatus = (IF last.outcome = "ok" THEN "saved" ELSE "error")
            /\ last.outcome = "ok" =>
                  body = Trim(sectionsToBody(intro, sections)) \o <<NL>>

\* The same where one request was issued.
C27_SingleRequest ==
    (Quiescent /\ Len(writes) = 1) =>
        LET last == writes[1]
        IN  /\ last.body = sectionsToBody(intro, sections)
            /\ saveStatus = (IF last.outcome = "ok" THEN "saved" ELSE "error")
            /\ last.outcome = "ok" =>
                  body = Trim(sectionsToBody(intro, sections)) \o <<NL>>

\* No intro and no section content of the editor has a heading line.
EditorHasNoHeadingLine ==
    /\ NoHeadingLine(intro)
    /\ \A i \in 1..Len(sections) : NoHeadingLine(sections[i].content)

\* The sections a reload finds are the editor's sections, up to trimming.
SectionsSurvive ==
    LET found == parseSections(sectionsToBody(intro, sections))
    IN  /\ Len(found) = Len(sections)
        /\ \A i \in 1..Len(sections) :
              /\ found[i].level = sections[i].level
              /\ Trim(found[i].title) = Trim(sections[i].title)
              /\ Trim(found[i].content) = Trim(sections[i].content)

\* C28: every state of the editor in which no section content and no intro
\* has a heading line survives save and reload: segmenting the body built
\* from it gives the same sections in the same order, with the same levels
\* and, up to trimming, the same titles and contents.
C28_EditorStatesSurviveReload ==
    (edits > 0 /\ EditorHasNoHeadingLine) => SectionsSurvive

\* The same for states with an empty intro.
C28_EmptyIntro ==
    (edits > 0 /\ EditorHasNoHeadingLine /\ Trim(intro) = <<>>)
        => SectionsSurvive

\* The same for states with an empty intro and no empty title.
C28_EmptyIntroAndTitled ==
    (/\ edits > 0
     /\ EditorHasNoHeadingLine
     /\ Trim(intro) = <<>>
     /\ \A i \in 1..Len(sections) : Trim(sections[i].title) # <<>>)
        => SectionsSurvive

----------------------------------------------------------------------------
\* The MCP server's tools and the scaffolding scripts.  A path is written
\* relative to the content directory, which holds the chats directory and
\* the plans directory.

T_chats == <<"c", "h", "a", "t", "s">>
T_plans == <<"p", "l", "a", "n", "s">>
T_User == <<"U", "s", "e", "r">>
T_AI == <<"A", "I">>

\* today(), on the day of the runs
T_today == <<"2", "0", "2", "6", "-", "0", "2", "-", "2", "5">>

MaxCalls == 2

\* String.prototype.replace(/[^a-z0-9]+/g, '-') on a lower-case text
RECURSIVE DashRuns(_, _)
DashRuns(s, inRun) ==
    IF s = <<>> THEN <<>>
    ELSE IF Head(s) \in Lower \cup Digit
    THEN <<Head(s)>> \o DashRuns(Tail(s), FALSE)
    ELSE (IF inRun THEN <<>> ELSE <<"-">>) \o DashRuns(Tail(s), TRUE)

\* .replace(/(^-|-$)/g, '')
StripDashes(s) ==
    LET t == IF s # <<>> /\ Head(s) = "-" THEN Tail(s) ELSE s
    IN  IF t # <<>> /\ t[Len(t)] = "-" THEN SubSeq(t, 1, Len(t) - 1) ELSE t

slugify(text) == StripDashes(DashRuns(ToLowerCase(text), FALSE))

\* path.join's normalisation of the segments: "" and "." are dropped and
\* ".." removes the segment before it.
RECURSIVE Normalize(_, _)
Normalize(stack, segs) ==
    IF segs = <<>> THEN stack
    ELSE IF Head(segs) \in {<<>>, <<".">>} THEN Normalize(stack, Tail(segs))
    ELSE IF Head(segs) = T_DotDot /\ stack # <<>> /\ stack[Len(stack)] # T_DotDot
    THEN Normalize(SubSeq(stack, 1, Len(stack) - 1), Tail(segs))
    ELSE Normalize(Append(stack, Head(segs)), Tail(segs))

\* path.join(dir, filename)
PathJoin(dir, filename) ==
    Join(Normalize(<<>>, <<dir>> \o Split(filename, "/")), <<"/">>)

\* The filename create_chat and the two scripts derive, and the one
\* create_plan derives.
DatedName(title) == T_today \o <<"-">> \o slugify(title) \o T_mdx
PlainName(title) == slugify(title) \o T_mdx

D_Chat ==
    <<"-", "-", "-", NL, "t", "i", "t", "l", "e", ":", SP, QUOTE, "A",
      QUOTE, NL, "t", "a", "g", "s", ":", SP, "[", QUOTE, "x", QUOTE, "]",
      NL, "a", "c", "t", "i", "o", "n", "_", "i", "t", "e", "m", "s", ":",
      NL, SP, SP, "-", SP, "t", "a", "s", "k", ":", SP, QUOTE, "t", QUOTE,
      NL, SP, SP, SP, SP, "d", "o", "n", "e", ":", SP, "f", "a", "l", "s",
      "e", NL, "-", "-", "-", NL, NL, "#", "#", SP, "U", "s", "e", "r", NL,
      NL, "h", "i", NL>>

D_Plan ==
    <<"-", "-", "-", NL, "t", "i", "t", "l", "e", ":", SP, QUOTE, "A",
      QUOTE, NL, "t", "l", "d", "r", ":", SP, QUOTE, "o", "l", "d", QUOTE,
      NL, "m", "i", "l", "e", "s", "t", "o", "n", "e", "s", ":", NL, SP,
      SP, "-", SP, "t", "i", "t", "l", "e", ":", SP, QUOTE, "M", QUOTE, NL,
      SP, SP, SP, SP, "w", "e", "e", "k", "s", ":", SP, QUOTE, "1", QUOTE,
      NL, SP, SP, SP, SP, "s", "t", "a", "t", "u", "s", ":", SP, QUOTE,
      "d", "o", "n", "e", QUOTE, NL, "-", "-", "-", NL, NL, "x", NL>>

D_secret == <<"k", "e", "y", NL>>

D_ChatDefaultItems ==
    <<SP, SP, "-", SP, "t", "a", "s", "k", ":", SP, QUOTE, QUOTE, NL, SP,
      SP, SP, SP, "d", "o", "n", "e", ":", SP, "f", "a", "l", "s", "e">>

D_ChatDefaultBody ==
    <<"#", "#", SP, "U", "s", "e", "r", NL, NL, "<", "!", "-", "-", SP,
      "W", "r", "i", "t", "e", SP, "t", "h", "e", SP, "u", "s", "e", "r",
      SP, "p", "r", "o", "m", "p", "t", SP, "h", "e", "r", "e", SP, "-",
      "-", ">", NL, NL, "#", "#", SP, "A", "I", NL, NL, "<", "!", "-", "-",
      SP, "P", "a", "s", "t", "e", SP, "o", "r", SP, "w", "r", "i", "t",
      "e", SP, "t", "h", "e", SP, "A", "I", SP, "r", "e", "s", "p", "o",
      "n", "s", "e", SP, "h", "e", "r", "e", SP, "-", "-", ">">>

D_PlanDefaultItems ==
    <<SP, SP, "-", SP, "t", "i", "t", "l", "e", ":", SP, QUOTE, QUOTE, NL,
      SP, SP, SP, SP, "w", "e", "e", "k", "s", ":", SP, QUOTE, QUOTE, NL,
      SP, SP, SP, SP, "s", "t", "a", "t", "u", "s", ":", SP, QUOTE, "n",
      "o", "t", "-", "s", "t", "a", "r", "t", "e", "d", QUOTE>>

D_PlanScriptBody ==
    <<"#", "#", SP, "O", "v", "e", "r", "v", "i", "e", "w", NL, NL, "<",
      "!", "-", "-", SP, "W", "r", "i", "t", "e", SP, "y", "o", "u", "r",
      SP, "p", "l", "a", "n", SP, "c", "o", "n", "t", "e", "n", "t", SP,
      "h", "e", "r", "e", SP, "u", "s", "i", "n", "g", SP, "#", "#", SP,
      "a", "n", "d", SP, "#", "#", "#", SP, "h", "e", "a", "d", "i", "n",
      "g", "s", SP, "-", "-", ">", NL, NL, "#", "#", SP, "P", "h", "a",
      "s", "e", SP, "1", NL, NL, "#", "#", "#", SP, "W", "e", "e", "k", SP,
      "1", NL, NL, "-", SP, "T", "a", "s", "k", SP, "o", "n", "e", NL, "-",
      SP, "T", "a", "s", "k", SP, "t", "w", "o">>

T_dateKey == <<"d", "a", "t", "e", ":", SP>>
T_tagsKey == <<"t", "a", "g", "s", ":", SP>>
T_tldrKey == <<"t", "l", "d", "r", ":", SP>>
T_durationKey == <<"d", "u", "r", "a", "t", "i", "o", "n", ":", SP>>
T_difficultyKey == <<"d", "i", "f", "f", "i", "c", "u", "l", "t", "y", ":", SP>>
T_intermediate == <<"i", "n", "t", "e", "r", "m", "e", "d", "i", "a", "t", "e">>
T_action_itemsKey == <<"a", "c", "t", "i", "o", "n", "_", "i", "t", "e", "m", "s", ":">>
T_milestonesKey == <<"m", "i", "l", "e", "s", "t", "o", "n", "e", "s", ":">>
T_titleKey == <<"t", "i", "t", "l", "e", ":", SP>>

\* `[${tags.map((t) => `"${t}"`).join(', ')}]`, '[]' for no tags
TagStr(tags) ==
    <<"[">> \o Join([i \in 1..Len(tags) |-> <<QUOTE>> \o tags[i] \o <<QUOTE>>],
                    T_CommaSp) \o <<"]">>

\* messages.map(m => `## ${...}\n\n${m.content}`).join('\n\n'), or the
\* placeholder body
ChatBody(msgs) ==
    IF msgs = <<>> THEN D_ChatDefaultBody
    ELSE Join([i \in 1..Len(msgs) |->
                  T_H2 \o (IF msgs[i].role = "user" THEN T_User ELSE T_AI)
                  \o T_Blank \o msgs[i].content],
              T_Blank)

\* The file create_chat writes; tldr and action_items are not given.
ChatContent(title, tags, msgs) ==
    T_Open \o T_titleKey \o <<QUOTE>> \o title \o <<QUOTE, NL>>
    \o T_dateKey \o T_today \o <<NL>>
    \o T_tagsKey \o TagStr(tags) \o <<NL>>
    \o T_tldrKey \o <<QUOTE, QUOTE, NL>>
    \o T_action_itemsKey \o <<NL>> \o D_ChatDefaultItems
    \o T_Close \o ChatBody(msgs) \o <<NL>>

\* The file create_plan writes; tldr, duration, difficulty and milestones
\* are not given.
PlanContent(title, tags, mdBody) ==
    T_Open \o T_titleKey \o <<QUOTE>> \o title \o <<QUOTE, NL>>
    \o T_dateKey \o T_today \o <<NL>>
    \o T_tagsKey \o TagStr(tags) \o <<NL>>
    \o T_tldrKey \o <<QUOTE, QUOTE, NL>>
    \o T_durationKey \o <<QUOTE, QUOTE, NL>>
    \o T_difficultyKey \o <<QUOTE>> \o T_intermediate \o <<QUOTE, NL>>
    \o T_milestonesKey \o <<NL>> \o D_PlanDefaultItems
    \o T_Close \o mdBody \o <<NL>>

\* JSON.stringify of a string, a boolean, a number, null or a milestone
JsonString(s) == <<QUOTE>> \o EscapeString(s) \o <<QUOTE>>

JsonMilestone(rec) ==
    <<"{">> \o JsonString(T_title) \o <<":">> \o JsonString(rec.title)
    \o <<",">> \o JsonString(T_weeks) \o <<":">> \o JsonString(rec.weeks)
    \o <<",">> \o JsonString(T_status) \o <<":">> \o JsonString(rec.status)
    \o <<"}">>

\* The text update_frontmatter writes after "key: "
Serialized(value) ==
    IF value.t = "string" THEN <<QUOTE>> \o value.v \o <<QUOTE>>
    ELSE IF value.t = "strings"
    THEN <<"[">> \o Join([i \in 1..Len(value.items) |->
                             <<QUOTE>> \o value.items[i] \o <<QUOTE>>],
                         T_CommaSp) \o <<"]">>
    ELSE IF value.t = "records"
    THEN <<"[">> \o Join([i \in 1..Len(value.recs) |->
                             JsonMilestone(value.recs[i])],
                         T_CommaSp) \o <<"]">>
    ELSE StringOf(value)

\* new RegExp(`^${key}:.*$`, 'm'): the first line that begins with "key:",
\* 0 when there is none.
KeyLine(lines, key) ==
    LET hits == {i \in 1..Len(lines) : StartsWith(lines[i], key \o <<":">>)}
    IN  IF hits = {} THEN 0 ELSE CHOOSE i \in hits : \A j \in hits : i <= j

\* The loop over Object.entries(fields) on the lines of the block.
RECURSIVE UpdateLines(_, _)
UpdateLines(lines, fields) ==
    IF fields = <<>> THEN lines
    ELSE LET f == Head(fields)
             k == KeyLine(lines, f.key)
         IN  UpdateLines(IF k = 0 THEN lines
                         ELSE [lines EXCEPT
                                  ![k] = f.key \o T_ColonSp \o Serialized(f.value)],
                         Tail(fields))

\* String.prototype.replace(old, new) for texts: the first occurrence.
ReplaceFirst(s, old, new) ==
    LET i == IndexOf(s, old)
    IN  IF i = 0 THEN s
        ELSE SubSeq(s, 1, i - 1) \o new \o Drop(s, i - 1 + Len(old))

\* The text update_frontmatter writes back for raw, which has a block.
UpdatedText(raw, fields) ==
    LET fmBlock == SubSeq(raw, 5, FrontmatterEnd(raw) - 1)
    IN  ReplaceFirst(raw, fmBlock,
                     Join(UpdateLines(Split(fmBlock, NL), fields), <<NL>>))

ToolTitles == { <<"A">>, <<"B", "!">> }

ToolFilenames ==
    { DatedName(<<"A">>), PlainName(<<"A">>),
      <<".", ".", "/", "k", ".", "m", "d", "x">>,
      <<"a", ".", "t", "x", "t">> }

Collections == { T_chats, T_plans }

ToolPaths ==
    {PathJoin(d, f) :
        d \in Collections,
        f \in ToolFilenames \cup {DatedName(t) : t \in ToolTitles}
                            \cup {PlainName(t) : t \in ToolTitles}}

P_chat == PathJoin(T_chats, DatedName(<<"A">>))
P_plan == PathJoin(T_plans, PlainName(<<"A">>))
P_secret == <<"k">> \o T_mdx

\* A chat and a plan exist, and a file of the content directory that is in
\* neither collection.
InitToolFiles ==
    [p \in ToolPaths |->
        IF p = P_chat THEN D_Chat
        ELSE IF p = P_plan THEN D_Plan
        ELSE IF p = P_secret THEN D_secret
        ELSE NoFile]

ToolMessages == { <<>>, <<[role |-> "ai", content |-> <<"y", "o">>]>> }

ToolTags == { <<>>, << <<"x">> >> }

UpdateFields ==
    { <<Entry(T_tldr, Str(<<"n", "e", "w">>))>>,
      <<Entry(T_tags, Strings(<< <<"y">>, <<"z">> >>))>>,
      <<Entry(T_milestones,
              Records(<<Milestone(<<"N">>, <<"2">>, <<"n", "o">>)>>))>>,
      <<Entry(T_title, Str(<<"B">>)), Entry(T_done, Bool(TRUE))>> }

\* One call of a tool or run of a script: the tool with the arguments that
\* name the file and the fields, the kind of its result with the paths its
\* fs calls were given, and the files after it.
Served(tool, collection, filename, fields, kind, accessed, fs) ==
    /\ calls < MaxCalls
    /\ calls' = calls + 1
    /\ req' = [tool |-> tool, collection |-> collection,
               filename |-> filename, fields |-> fields]
    /\ resp' = [kind |-> kind, accessed |-> accessed]
    /\ files' = fs
    /\ UNCHANGED <<codecVars, nameVars, segVars, contentVars, saveVars>>

\* The creating tools and scripts: nothing is written when the file exists.
Created(tool, collection, filename, text) ==
    LET filepath == PathJoin(collection, filename)
    IN  IF Exists(files, filepath)
        THEN Served(tool, collection, filename, <<>>, "exists", {filepath},
                    files)
        ELSE Served(tool, collection, filename, <<>>, "created", {filepath},
                    [files EXCEPT ![filepath] = text])

create_chat(title, tags, msgs) ==
    Created("create_chat", T_chats, DatedName(title),
            ChatContent(title, tags, msgs))

create_plan(title, tags, mdBody) ==
    Created("create_plan", T_plans, PlainName(title),
            PlanContent(title, tags, mdBody))

\* npm run new-chat -- title
new_chat(title) ==
    Created("new-chat", T_chats, DatedName(title),
            ChatContent(title, <<>>, <<>>))

\* npm run new-plan -- title
new_plan(title) ==
    Created("new-plan", T_plans, DatedName(title),
            PlanContent(title, <<>>, D_PlanScriptBody))

add_message(filename, role, text) ==
    LET filepath == PathJoin(T_chats, filename)
    IN  IF ~isSafeFilename(filename)
        THEN Served("add_message", T_chats, filename, <<>>, "invalid", {},
                    files)
        ELSE IF ~Exists(files, filepath)
        THEN Served("add_message", T_chats, filename, <<>>, "not found",
                    {filepath}, files)
        ELSE Served("add_message", T_chats, filename, <<>>, "appended",
                    {filepath},
                    [files EXCEPT ![filepath] =
                        @ \o T_Blank \o T_H2
                          \o (IF role = "user" THEN T_User ELSE T_AI)
                          \o T_Blank \o text])

update_frontmatter(collection, filename, fields) ==
    LET filepath == PathJoin(collection, filename)
    IN  IF ~isSafeFilename(filename)
        THEN Served("update_frontmatter", collection, filename, fields,
                    "invalid", {}, files)
        ELSE IF ~Exists(files, filepath)
        THEN Served("update_frontmatter", collection, filename, fields,
                    "not found", {filepath}, files)
        ELSE IF FrontmatterEnd(files[filepath]) = 0
        THEN Served("update_frontmatter", collection, filename, fields,
                    "no frontmatter", {filepath}, files)
        ELSE Served("update_frontmatter", collection, filename, fields,
                    "updated", {filepath},
                    [files EXCEPT ![filepath] = UpdatedText(@, fields)])

\* The text get_entry returns is files[filepath].
get_entry(collection, filename) ==
    LET filepath == PathJoin(collection, filename)
    IN  IF ~isSafeFilename(filename)
        THEN Served("get_entry", collection, filename, <<>>, "invalid", {},
                    files)
        ELSE IF ~Exists(files, filepath)
        THEN Served("get_entry", collection, filename, <<>>, "not found",
                    {filepath}, files)
        ELSE Served("get_entry", collection, filename, <<>>, "read",
                    {filepath}, files)

delete_entry(collection, filename) ==
    LET filepath == PathJoin(collection, filename)
    IN  IF ~isSafeFilename(filename)
        THEN Served("delete_entry", collection, filename, <<>>, "invalid",
                    {}, files)
        ELSE IF ~Exists(files, filepath)
        THEN Served("delete_entry", collection, filename, <<>>, "not found",
                    {filepath}, files)
        ELSE Served("delete_entry", collection, filename, <<>>, "deleted",
                    {filepath}, [files EXCEPT ![filepath] = NoFile])

NoCall == [tool |-> "none", collection |-> <<>>, filename |-> <<>>,
           fields |-> <<>>]

NoResult == [kind |-> "none", accessed |-> {}]

InitTools ==
    /\ files = InitToolFiles
    /\ req = NoCall
    /\ resp = NoResult
    /\ calls = 0
    /\ IdleCodec /\ IdleName /\ IdleSeg /\ IdleContent /\ IdleSave

NextTools ==
    \/ \E t \in ToolTitles, g \in ToolTags, m \in ToolMessages :
           create_chat(t, g, m)
    \/ \E t \in ToolTitles, g \in ToolTags : create_plan(t, g, <<"x">>)
    \/ \E t \in ToolTitles : new_chat(t)
    \/ \E t \in ToolTitles : new_plan(t)
    \/ \E f \in ToolFilenames, r \in {"user", "ai"} : add_message(f, r, <<"m">>)
    \/ \E c \in Collections, f \in ToolFilenames, u \in UpdateFields :
           update_frontmatter(c, f, u)
    \/ \E c \in Collections, f \in ToolFilenames : get_entry(c, f)
    \/ \E c \in Collections, f \in ToolFilenames : delete_entry(c, f)

SpecTools == InitTools /\ [][NextTools]_vars

----------------------------------------------------------------------------
\* Replace semantics of update_frontmatter

\* The lines of a document: the header's lines lie between the opening
\* delimiter and the first later line that begins with the delimiter.
HeaderClose(ls) ==
    CHOOSE i \in 2..Len(ls) :
        /\ StartsWith(ls[i], T_Delim)
        /\ \A j \in 2..(i - 1) : ~StartsWith(ls[j], T_Delim)

HeaderOf(raw) ==
    LET ls == Split(raw, NL) IN SubSeq(ls, 2, HeaderClose(ls) - 1)

AfterHeader(raw) ==
    LET ls == Split(raw, NL) IN SubSeq(ls, HeaderClose(ls), Len(ls))

\* The fields of a header: a line that is not indented opens a field, and
\* the indented lines after it belong to it.
RECURSIVE FieldGroups(_, _)
FieldGroups(groups, ls) ==
    IF ls = <<>> THEN groups
    ELSE IF StartsWith(Head(ls), <<SP>>) /\ groups # <<>>
    THEN FieldGroups([groups EXCEPT ![Len(groups)] = Append(@, Head(ls))],
                     Tail(ls))
    ELSE FieldGroups(Append(groups, <<Head(ls)>>), Tail(ls))

NamedIn(fields, group) ==
    \E i \in 1..Len(fields) : StartsWith(group[1], fields[i].key \o <<":">>)

\* before became after by replacing each named field by one line that
\* opens with its key, every other field being kept.
ReplacedFields(before, after, fields) ==
    LET old == FieldGroups(<<>>, HeaderOf(before))
        new == FieldGroups(<<>>, HeaderOf(after))
    IN  /\ Len(new) = Len(old)
        /\ \A g \in 1..Len(old) :
              IF NamedIn(fields, old[g])
              THEN /\ Len(new[g]) = 1
                   /\ NamedIn(fields, new[g])
                   /\ \E i \in 1..Len(fields) :
                         new[g][1] = fields[i].key \o T_ColonSp
                                     \o Serialized(fields[i].value)
              ELSE new[g] = old[g]
        /\ AfterHeader(after) = AfterHeader(before)

OneLineFields(before, fields) ==
    LET old == FieldGroups(<<>>, HeaderOf(before))
    IN  \A g \in 1..Len(old) : NamedIn(fields, old[g]) => Len(old[g]) = 1

IsUpdate ==
    calls' = calls + 1 /\ req'.tool = "update_frontmatter"
    /\ resp'.kind = "updated"

\* C25: an update_frontmatter call that succeeds leaves, for each named
\* field the header already had, exactly the new one-line value and no line
\* of the old value; it adds no field, and keeps every other header line
\* and the whole body.
C25_ReplaceSemantics ==
    [][IsUpdate =>
         \A p \in resp'.accessed :
            ReplacedFields(files[p], files'[p], req'.fields)]_vars

\* The same for calls naming only fields whose old value is on one line.
C25_OneLineFields ==
    [][(IsUpdate /\ \A p \in resp'.accessed :
                       OneLineFields(files[p], req'.fields)) =>
         \A p \in resp'.accessed :
            ReplacedFields(files[p], files'[p], req'.fields)]_vars

----------------------------------------------------------------------------
\* Filenames given to the tools, and creation of documents

FilenameTools == {"add_message", "update_frontmatter", "get_entry",
                  "delete_entry"}

CreatingTools == {"create_chat", "create_plan", "new-chat", "new-plan"}

\* A path of a file that lies in the chats or the plans directory.
InCollections(p) ==
    LET segs == Split(p, "/")
    IN  /\ Len(segs) >= 2
        /\ segs[1] \in Collections
        /\ \A i \in 1..Len(segs) : segs[i] # T_DotDot

\* C29: a tool given a filename that isSafeFilename rejects answers
\* "Invalid filename", touches no file and changes none; no call of a tool
\* that takes a filename touches or changes a file outside the chats and
\* plans directories.
C29_UnsafeFilenameTouchesNothing ==
    [][(calls' = calls + 1 /\ req'.tool \in FilenameTools) =>
         /\ ~isSafeFilename(req'.filename) =>
               /\ resp'.kind = "invalid"
               /\ resp'.accessed = {}
               /\ files' = files
         /\ \A p \in resp'.accessed : InCollections(p)
         /\ \A p \in DOMAIN files : ~InCollections(p) => files'[p] = files[p]]_vars

\* delete_entry was called with a filename that climbs out of the
\* collection to an existing file, which is still there.
C29_Witness ==
    /\ req.tool = "delete_entry"
    /\ Includes(req.filename, T_DotDot)
    /\ PathJoin(req.collection, req.filename) = P_secret
    /\ resp.kind = "invalid"
    /\ files[P_secret] = D_secret

====
